---- MODULE Spec2Model ----
(***************************************************************************)
(* A model of clientSuccessClient.js: the ClientSuccess REST client.       *)
(*                                                                         *)
(* JavaScript values are tagged records, strings are sequences of          *)
(* one-character strings (so that parseInt and template literals can be    *)
(* computed), and every async method is a frame on a per-call stack.  One  *)
(* action is one turn of the event loop: a call is started, or the         *)
(* response of the pending axios request arrives, and the code runs up to  *)
(* the next axios request (or to the end of the call).                     *)
(***************************************************************************)
EXTENDS Integers, Sequences, FiniteSets

VARIABLES
    authToken,      \* this.authToken
    clientTypes,    \* this.clientTypes
    clients,        \* the provider's client records, by id
    contacts,       \* the provider's contact records, by id
    stack,          \* per caller: the frames of the running call
    wait,           \* per caller: the axios request in flight
    hist,           \* per caller: what the running call has sent and received
    call,           \* per caller: the public call that is running or has ended
    result,         \* per caller: how the last call ended
    ncalls,         \* the number of public calls started
    nextId,         \* the provider's next record id
    budget,         \* how many more recoverable faults the provider may inject
    pre,            \* per caller: the provider's records when the call began
    prev,           \* per caller: the externalId and id of the upsert before this call
    twin,           \* per caller: the same call run with its blank id left out
    probe           \* the input and output of a pure function under test

vars == <<authToken, clientTypes, clients, contacts, stack, wait, hist, call,
          result, ncalls, nextId, budget, pre, prev, twin, probe>>

----------------------------------------------------------------------------
(* JavaScript values *)

UNDEF == [t |-> "undefined"]
NULL == [t |-> "null"]
NAN == [t |-> "NaN"]
Str(s) == [t |-> "string", s |-> s]
Num(neg, int, frac) == [t |-> "number", neg |-> neg, int |-> int, frac |-> frac]
JSInt(n) == Num(n < 0, IF n < 0 THEN -n ELSE n, 0)
Bool(b) == [t |-> "boolean", b |-> b]

Digits == <<"0", "1", "2", "3", "4", "5", "6", "7", "8", "9">>
HexLetters == <<"a", "b", "c", "d", "e", "f">>
HexCapitals == <<"A", "B", "C", "D", "E", "F">>

IndexOf(seq, x) ==
    IF \E i \in DOMAIN seq : seq[i] = x
    THEN CHOOSE i \in DOMAIN seq : seq[i] = x
    ELSE 0

\* The value of a character as a digit in the given radix, or -1, from its
\* places d, l and u among the digits, the letters and the capitals.
PlaceValue(d, l, u, radix) ==
    IF d > 0 THEN d - 1
    ELSE IF radix = 16 /\ l > 0 THEN 9 + l
    ELSE IF radix = 16 /\ u > 0 THEN 9 + u
    ELSE -1

DigitValue(ch, radix) ==
    PlaceValue(IndexOf(Digits, ch), IndexOf(HexLetters, ch), IndexOf(HexCapitals, ch), radix)

RECURSIVE NatToChars(_)
NatToChars(n) ==
    IF n < 10 THEN <<Digits[n + 1]>>
    ELSE NatToChars(n \div 10) \o <<Digits[(n % 10) + 1]>>

\* String(v) and `${v}`.
ToString(v) ==
    CASE v.t = "string" -> v.s
      [] v.t = "number" ->
            (IF v.neg THEN <<"-">> ELSE <<>>) \o NatToChars(v.int)
                \o (IF v.frac = 0 THEN <<>> ELSE <<".", Digits[v.frac + 1]>>)
      [] v.t = "undefined" -> <<"u", "n", "d", "e", "f", "i", "n", "e", "d">>
      [] v.t = "null" -> <<"n", "u", "l", "l">>
      [] v.t = "NaN" -> <<"N", "a", "N">>
      [] OTHER -> <<"[", "o", "b", "j", "e", "c", "t", "]">>

\* !v
Falsy(v) ==
    \/ v.t \in {"undefined", "null", "NaN"}
    \/ v.t = "string" /\ v.s = <<>>
    \/ v.t = "number" /\ v.int = 0 /\ v.frac = 0
    \/ v.t = "boolean" /\ ~v.b

RECURSIVE SkipSpaces(_)
SkipSpaces(s) ==
    IF s # <<>> /\ Head(s) = " " THEN SkipSpaces(Tail(s)) ELSE s

\* The number made of the longest prefix of s of digits of the radix, read
\* after the n digits already read (acc); NaN when there is no digit.
RECURSIVE ReadDigits(_, _, _, _, _)
ReadDigits(s, radix, neg, acc, n) ==
    IF s # <<>> /\ DigitValue(Head(s), radix) >= 0
    THEN ReadDigits(Tail(s), radix, neg, acc * radix + DigitValue(Head(s), radix), n + 1)
    ELSE IF n = 0 THEN NAN ELSE Num(neg, acc, 0)

\* The digits after the sign: an optional 0x, then the digits.
ReadUnsigned(s, neg) ==
    IF Len(s) >= 2 /\ s[1] = "0" /\ s[2] \in {"x", "X"}
    THEN ReadDigits(Tail(Tail(s)), 16, neg, 0, 0)
    ELSE ReadDigits(s, 10, neg, 0, 0)

ReadSigned(s) ==
    IF s # <<>> /\ Head(s) \in {"-", "+"}
    THEN ReadUnsigned(Tail(s), Head(s) = "-")
    ELSE ReadUnsigned(s, FALSE)

\* parseInt(v): the string of v, leading blanks skipped, an optional sign, an
\* optional 0x, then the longest run of digits; NaN when there is no digit.
ParseInt(v) == ReadSigned(SkipSpaces(ToString(v)))

IsNaN(v) == v.t = "NaN"

----------------------------------------------------------------------------
(* Results of calls, and CustomError *)

NoResult == [k |-> "none"]
Ok(v) == [k |-> "ok", val |-> v]

\* new CustomError({ status, message })
CustomError(status, message) ==
    [k |-> "err", kind |-> "CustomError", status |-> status, message |-> message]

\* A failure that is no CustomError: error.response is undefined when the
\* transport got no response, and reading its status throws a TypeError.
TypeError == [k |-> "err", kind |-> "TypeError", status |-> -1, message |-> "TypeError"]

IsOk(r) == r.k = "ok"
IsErr(r) == r.k = "err"

----------------------------------------------------------------------------
(* The identifier validator *)

validateClientSuccessId_NoParse(clientSuccessId) ==
    IF Falsy(clientSuccessId)
    THEN CustomError(400, "Invalid ClientSuccess ID")
    ELSE Ok(UNDEF)

validateClientSuccessId(clientSuccessId) ==
    IF Falsy(clientSuccessId) \/ IsNaN(ParseInt(clientSuccessId))
    THEN CustomError(400, "Invalid ClientSuccess ID")
    ELSE Ok(UNDEF)

----------------------------------------------------------------------------
(* Objects, arrays and the helpers of lodash the code uses *)

Obj(f) == [t |-> "object", f |-> f]
Arr(e) == [t |-> "array", e |-> e]
EmptyObj == Obj(<<>>)

\* o[k] for an own property, undefined otherwise.
Get(o, k) == IF o.t = "object" /\ k \in DOMAIN o.f THEN o.f[k] ELSE UNDEF

\* Object.assign(target, source): source's own properties override target's.
ObjectAssign(target, source) ==
    IF source.t # "object" THEN target
    ELSE Obj([k \in DOMAIN target.f \cup DOMAIN source.f |->
                IF k \in DOMAIN source.f THEN source.f[k] ELSE target.f[k]])

RECURSIVE SetToSeq(_)
SetToSeq(S) ==
    IF S = {} THEN <<>>
    ELSE LET x == CHOOSE y \in S : TRUE IN <<x>> \o SetToSeq(S \ {x})

\* The comparison of the key with the label dropped: every entry gets the value.
RECURSIVE PatchEntries_AnyLabel(_, _, _, _)
PatchEntries_AnyLabel(entries, i, key, value) ==
    IF i > Len(entries) THEN entries
    ELSE PatchEntries_AnyLabel(
            [entries EXCEPT ![i] = Obj([label |-> entries[i].f.label, value |-> value])],
            i + 1, key, value)

\* The inner _.forEach of patchCustomAttributes: every entry whose label is
\* the key gets the value.
RECURSIVE PatchEntries(_, _, _, _)
PatchEntries(entries, i, key, value) ==
    IF i > Len(entries) THEN entries
    ELSE PatchEntries(
            IF entries[i].f.label = key
            THEN [entries EXCEPT ![i] = Obj([label |-> entries[i].f.label, value |-> value])]
            ELSE entries,
            i + 1, key, value)

\* Every key added as a new entry instead of patched in place.
RECURSIVE PatchKeys_Append(_, _, _)
PatchKeys_Append(entries, keys, customAttributes) ==
    IF keys = <<>> THEN entries
    ELSE PatchKeys_Append(
            Append(entries, Obj([label |-> Head(keys),
                                 value |-> customAttributes.f[Head(keys)]])),
            Tail(keys), customAttributes)

\* The outer _.forEach of patchCustomAttributes, over the keys still to do.
RECURSIVE PatchKeys(_, _, _)
PatchKeys(entries, keys, customAttributes) ==
    IF keys = <<>> THEN entries
    ELSE PatchKeys(PatchEntries(entries, 1, Head(keys), customAttributes.f[Head(keys)]),
                   Tail(keys), customAttributes)

\* patchCustomAttributes(object, customAttributes): the object as the call
\* leaves it (the code patches object.customFieldValues in place).
patchCustomAttributes(object, customAttributes) ==
    IF Falsy(customAttributes) \/ customAttributes.t # "object" THEN object
    ELSE IF Get(object, "customFieldValues").t # "array" THEN object
    ELSE ObjectAssign(object,
            Obj([customFieldValues |->
                    Arr(PatchKeys(object.f.customFieldValues.e,
                                  SetToSeq(DOMAIN customAttributes.f),
                                  customAttributes))]))

----------------------------------------------------------------------------
(* Calls: frames, and the configuration of one caller while its code runs *)

NoReq == [kind |-> "none"]

Frame(m, a) == [m |-> m, pc |-> "start", a |-> a, l |-> <<>>]

NewHist ==
    [nget |-> 0, npost |-> 0, nput |-> 0, ndel |-> 0,   \* API requests sent, by method
     nauth |-> 0,       \* requests sent to the auth endpoint
     nraw |-> 0,        \* requests sent to the events collector
     n401 |-> 0,        \* 401 answers received from the API
     reauth |-> 0,      \* authenticate calls made by a retry of the loop
     lastReq |-> NoReq, \* the last request sent
     lastStatus |-> -1, \* the status of the last API response (0: no response)
     npost401 |-> 0,    \* POST requests answered 401
     lastAuth |-> -1,   \* the status of the last answer of the auth endpoint
     granted |-> FALSE, \* the last answer of the auth endpoint carried a token
     lastOk |-> UNDEF]  \* the body of the last successful API response

Top(c) == c.stack[Len(c.stack)]
SetTop(c, f) == [c EXCEPT !.stack[Len(c.stack)] = f]

\* The top frame becomes f and calls method m with arguments a.
Invoke(c, f, m, a) ==
    [c EXCEPT !.stack = Append(SetTop(c, f).stack, Frame(m, a)), !.in = NoResult]

\* The top frame returns (or throws) res to the frame below it.
Return(c, res) ==
    [c EXCEPT !.stack = SubSeq(c.stack, 1, Len(c.stack) - 1), !.in = res]

CountReq(h, req) ==
    LET h1 == [h EXCEPT !.lastReq = req]
    IN  CASE req.kind = "auth" -> [h1 EXCEPT !.nauth = @ + 1]
          [] req.kind = "raw" -> [h1 EXCEPT !.nraw = @ + 1]
          [] req.method = "GET" -> [h1 EXCEPT !.nget = @ + 1]
          [] req.method = "POST" -> [h1 EXCEPT !.npost = @ + 1]
          [] req.method = "PUT" -> [h1 EXCEPT !.nput = @ + 1]
          [] OTHER -> [h1 EXCEPT !.ndel = @ + 1]

\* The top frame becomes f and awaits axios(req).
Await(c, f, req) ==
    [SetTop(c, f) EXCEPT !.wait = req, !.in = NoResult, !.hist = CountReq(c.hist, req)]

----------------------------------------------------------------------------
(* authenticate and hitClientSuccessAPI *)

RETRY_LIMIT == 10

AuthRequest == [kind |-> "auth", method |-> "POST"]

\* The catch block of authenticate: r is the failed response.
authCatch(c, r) ==
    IF r.status = 0 THEN Return(c, TypeError)
    ELSE IF r.status = 401 THEN Return(c, CustomError(401, "Authentication Error"))
    ELSE Return(c, CustomError(400, "Invalid Request"))

authenticate(c, f, r) ==
    IF f.pc = "start" THEN Await(c, [f EXCEPT !.pc = "sent"], AuthRequest)
    ELSE IF r.status \in 200..299 THEN
        Return([c EXCEPT !.tok = IF Falsy(Get(r.data, "access_token"))
                                 THEN c.tok ELSE Get(r.data, "access_token"),
                         !.hist.lastAuth = r.status,
                         !.hist.granted = ~Falsy(Get(r.data, "access_token"))],
               Ok(UNDEF))
    ELSE authCatch([c EXCEPT !.hist.lastAuth = r.status], r)

ApiRequest(c, f) ==
    [kind |-> "api", method |-> f.a.method, path |-> f.a.path, data |-> f.a.data,
     auth |-> c.tok]

\* One attempt more than the limit.
hitLoop_OffByOne(c, f) ==
    IF f.l.retry > RETRY_LIMIT THEN Return(c, CustomError(429, "Too Many Requests"))
    ELSE IF Falsy(c.tok) THEN
        Invoke([c EXCEPT !.hist.reauth = IF f.l.retry > 0 THEN @ + 1 ELSE @],
               [f EXCEPT !.pc = "authed"], "authenticate", <<>>)
    ELSE Await(c, [f EXCEPT !.pc = "sent"], ApiRequest(c, f))

\* The head of the retry loop, with f.l.retry attempts made.
hitLoop(c, f) ==
    IF f.l.retry >= RETRY_LIMIT THEN Return(c, CustomError(429, "Too Many Requests"))
    ELSE IF Falsy(c.tok) THEN
        Invoke([c EXCEPT !.hist.reauth = IF f.l.retry > 0 THEN @ + 1 ELSE @],
               [f EXCEPT !.pc = "authed"], "authenticate", <<>>)
    ELSE Await(c, [f EXCEPT !.pc = "sent"], ApiRequest(c, f))

\* The 401 branch dropped: the stale token is kept and sent again.
hitCatch_KeepToken(c, f, r) ==
    IF r.status = 0 THEN Return(c, TypeError)
    ELSE IF r.status = 401 THEN
        hitLoop([c EXCEPT !.hist.n401 = @ + 1], [f EXCEPT !.l.retry = @ + 1])
    ELSE Return(c, CustomError(r.status, "Failed"))

\* A 503 treated like a 401: retried instead of raised.
hitCatch_Retry503(c, f, r) ==
    IF r.status = 0 THEN Return(c, TypeError)
    ELSE IF r.status \in {401, 503} THEN
        hitLoop([c EXCEPT !.tok = NULL,
                          !.hist.n401 = IF r.status = 401 THEN @ + 1 ELSE @],
                [f EXCEPT !.l.retry = @ + 1])
    ELSE Return(c, CustomError(r.status, "Failed"))

\* The token dropped on a 503 as well, before the error is thrown.
hitCatch_Clear503(c, f, r) ==
    IF r.status = 0 THEN Return(c, TypeError)
    ELSE IF r.status = 401 THEN
        hitLoop([c EXCEPT !.tok = NULL, !.hist.n401 = @ + 1],
                [f EXCEPT !.l.retry = @ + 1])
    ELSE IF r.status = 503
    THEN Return([c EXCEPT !.tok = NULL], CustomError(503, "Service Temporarily Unavailable"))
    ELSE Return(c, CustomError(r.status, "Failed"))

\* The catch block of the loop: r is the failed response.
hitCatch(c, f, r) ==
    IF r.status = 0 THEN Return(c, TypeError)
    ELSE IF r.status = 401 THEN
        hitLoop([c EXCEPT !.tok = NULL, !.hist.n401 = @ + 1],
                [f EXCEPT !.l.retry = @ + 1])
    ELSE IF r.status = 503 THEN Return(c, CustomError(503, "Service Temporarily Unavailable"))
    ELSE IF r.status = 417 THEN Return(c, CustomError(417, "Expectation Failed"))
    ELSE IF r.status = 404 THEN Return(c, CustomError(404, "Not Found"))
    ELSE IF r.status = 400 THEN Return(c, CustomError(400, "Bad Request"))
    ELSE Return(c, CustomError(r.status, "undefined"))

\* The failure of authenticate swallowed: the request is sent all the same.
hitClientSuccessAPI_IgnoreAuthError(c, f, r) ==
    CASE f.pc = "start" ->
            IF f.a.method = "" THEN Return(c, CustomError(400, "API Method Required"))
            ELSE hitLoop(c, [f EXCEPT !.l = [retry |-> 0]])
      [] f.pc = "authed" -> Await(c, [f EXCEPT !.pc = "sent"], ApiRequest(c, f))
      [] OTHER ->
            IF r.status \in 200..299
            THEN Return([c EXCEPT !.hist.lastOk = r.data, !.hist.lastStatus = r.status],
                        Ok(r.data))
            ELSE hitCatch([c EXCEPT !.hist.lastStatus = r.status], f, r)

hitClientSuccessAPI(c, f, r) ==
    CASE f.pc = "start" ->
            IF f.a.method = "" THEN Return(c, CustomError(400, "API Method Required"))
            ELSE hitLoop(c, [f EXCEPT !.l = [retry |-> 0]])
      [] f.pc = "authed" ->
            IF IsErr(r) THEN Return(c, r)
            ELSE Await(c, [f EXCEPT !.pc = "sent"], ApiRequest(c, f))
      [] OTHER -> \* the response of the API
            IF r.status \in 200..299
            THEN Return([c EXCEPT !.hist.lastOk = r.data, !.hist.lastStatus = r.status],
                        Ok(r.data))
            ELSE hitCatch([c EXCEPT !.hist.lastStatus = r.status,
                                    !.hist.npost401 = IF r.status = 401 /\ f.a.method = "POST"
                                                      THEN @ + 1 ELSE @], f, r)

----------------------------------------------------------------------------
(* Clients *)

Hit(method, path, data) == [method |-> method, path |-> path, data |-> data]

\* `clients/${clientId}` (updateClient writes `/clients/${clientId}`: the
\* same resource).
ClientPath(clientId) == [ep |-> "clients/:id", ids |-> <<ToString(clientId)>>]

getClient(c, f, r) ==
    IF f.pc = "start" THEN
        IF IsErr(validateClientSuccessId(f.a.clientId))
        THEN Return(c, validateClientSuccessId(f.a.clientId))
        ELSE Invoke(c, [f EXCEPT !.pc = "ret"], "hitClientSuccessAPI",
                    Hit("GET", ClientPath(f.a.clientId), UNDEF))
    ELSE Return(c, r)

getClientByExternalId(c, f, r) ==
    IF f.pc = "start" THEN
        IF Falsy(f.a.externalId) \/ f.a.externalId.t # "string"
        THEN Return(c, CustomError(400, "Invalid externalId for getClientByExternalId."))
        ELSE Invoke(c, [f EXCEPT !.pc = "ret"], "hitClientSuccessAPI",
                    Hit("GET", [ep |-> "clients/?externalId",
                                ids |-> <<ToString(f.a.externalId)>>], UNDEF))
    ELSE Return(c, r)

\* const createdUser = await this.hitClientSuccessAPI('POST', 'clients', attributes)
createClientPost(c, f) ==
    Invoke(c, [f EXCEPT !.pc = "posted"], "hitClientSuccessAPI",
           Hit("POST", [ep |-> "clients", ids |-> <<>>], f.a.attributes))

\* The lookup by externalId skipped: every call creates.
createClient_NoLookup(c, f, r) ==
    CASE f.pc = "start" -> createClientPost(c, f)
      [] f.pc = "posted" ->
            IF IsErr(r) THEN Return(c, r)
            ELSE IF Falsy(f.a.customAttributes) THEN Return(c, Ok(r.val))
            ELSE Invoke(c, [f EXCEPT !.pc = "ret"], "updateClient",
                        [clientId |-> Get(r.val, "id"), attributes |-> f.a.attributes,
                         customAttributes |-> f.a.customAttributes])
      [] OTHER -> Return(c, r)

\* The test of the catch block inverted: a 404 of the lookup is raised.
createClient_Rethrow404(c, f, r) ==
    CASE f.pc = "start" ->
            IF ~Falsy(Get(f.a.attributes, "externalId"))
            THEN Invoke(c, [f EXCEPT !.pc = "looked"], "getClientByExternalId",
                        [externalId |-> Get(f.a.attributes, "externalId")])
            ELSE createClientPost(c, f)
      [] f.pc = "looked" ->
            IF IsOk(r) THEN
                Invoke(c, [f EXCEPT !.pc = "ret"], "updateClient",
                       [clientId |-> Get(r.val, "id"), attributes |-> f.a.attributes,
                        customAttributes |-> f.a.customAttributes])
            ELSE IF r.status = 404 THEN Return(c, CustomError(r.status, r.message))
            ELSE createClientPost(c, f)
      [] f.pc = "posted" ->
            IF IsErr(r) THEN Return(c, r)
            ELSE IF Falsy(f.a.customAttributes) THEN Return(c, Ok(r.val))
            ELSE Invoke(c, [f EXCEPT !.pc = "ret"], "updateClient",
                        [clientId |-> Get(r.val, "id"), attributes |-> f.a.attributes,
                         customAttributes |-> f.a.customAttributes])
      [] OTHER -> Return(c, r)

createClient(c, f, r) ==
    CASE f.pc = "start" ->
            IF ~Falsy(Get(f.a.attributes, "externalId"))
            THEN Invoke(c, [f EXCEPT !.pc = "looked"], "getClientByExternalId",
                        [externalId |-> Get(f.a.attributes, "externalId")])
            ELSE createClientPost(c, f)
      [] f.pc = "looked" ->
            IF IsOk(r) THEN
                IF r.val.t \in {"undefined", "null"}
                THEN \* foundClient.id throws inside the try; the catch wraps it
                     Return(c, CustomError(-1, "TypeError"))
                ELSE Invoke(c, [f EXCEPT !.pc = "ret"], "updateClient",
                            [clientId |-> Get(r.val, "id"), attributes |-> f.a.attributes,
                             customAttributes |-> f.a.customAttributes])
            ELSE IF r.status # 404 THEN Return(c, CustomError(r.status, r.message))
            ELSE createClientPost(c, f)
      [] f.pc = "posted" ->
            IF IsErr(r) THEN Return(c, r)
            ELSE IF Falsy(f.a.customAttributes) THEN Return(c, Ok(r.val))
            ELSE Invoke(c, [f EXCEPT !.pc = "ret"], "updateClient",
                        [clientId |-> Get(r.val, "id"), attributes |-> f.a.attributes,
                         customAttributes |-> f.a.customAttributes])
      [] OTHER -> Return(c, r)

\* The supplied attributes alone written back, without the fetched record.
updateClient_NoMerge(c, f, r) ==
    CASE f.pc = "start" ->
            IF IsErr(validateClientSuccessId(f.a.clientId))
            THEN Return(c, validateClientSuccessId(f.a.clientId))
            ELSE Invoke(c, [f EXCEPT !.pc = "got"], "getClient", [clientId |-> f.a.clientId])
      [] f.pc = "got" ->
            IF IsErr(r) THEN Return(c, r)
            ELSE Invoke(c, [f EXCEPT !.pc = "ret"], "hitClientSuccessAPI",
                        Hit("PUT", ClientPath(f.a.clientId),
                            ObjectAssign(Obj([id |-> Get(r.val, "id")]), f.a.attributes)))
      [] OTHER -> Return(c, r)

updateClient(c, f, r) ==
    CASE f.pc = "start" ->
            IF IsErr(validateClientSuccessId(f.a.clientId))
            THEN Return(c, validateClientSuccessId(f.a.clientId))
            ELSE Invoke(c, [f EXCEPT !.pc = "got"], "getClient", [clientId |-> f.a.clientId])
      [] f.pc = "got" ->
            IF IsErr(r) THEN Return(c, r)
            ELSE Invoke(c, [f EXCEPT !.pc = "ret"], "hitClientSuccessAPI",
                        Hit("PUT", ClientPath(f.a.clientId),
                            patchCustomAttributes(ObjectAssign(r.val, f.a.attributes),
                                                  f.a.customAttributes)))
      [] OTHER -> Return(c, r)

\* A default parameter value: it replaces undefined only.
Default(v, d) == IF v.t = "undefined" THEN d ELSE v

\* The create path taken only for an undefined clientId.
upsertClient_StrictUndefined(c, f, r) ==
    CASE f.pc = "start" ->
            IF f.a.clientId.t = "undefined"
            THEN Invoke(c, [f EXCEPT !.pc = "written"], "createClient",
                        [attributes |-> Default(f.a.attributes, EmptyObj),
                         customAttributes |-> Default(f.a.customAttributes, EmptyObj)])
            ELSE Invoke(c, [f EXCEPT !.pc = "written"], "updateClient",
                        [clientId |-> f.a.clientId,
                         attributes |-> Default(f.a.attributes, EmptyObj),
                         customAttributes |-> Default(f.a.customAttributes, EmptyObj)])
      [] f.pc = "written" ->
            IF IsErr(r) THEN Return(c, r)
            ELSE Invoke(c, [f EXCEPT !.pc = "ret"], "getClient", [clientId |-> Get(r.val, "id")])
      [] OTHER -> Return(c, r)

\* The written record returned as it is, without the GET that follows.
upsertClient_NoRefetch(c, f, r) ==
    CASE f.pc = "start" ->
            IF Falsy(f.a.clientId)
            THEN Invoke(c, [f EXCEPT !.pc = "written"], "createClient",
                        [attributes |-> Default(f.a.attributes, EmptyObj),
                         customAttributes |-> Default(f.a.customAttributes, EmptyObj)])
            ELSE Invoke(c, [f EXCEPT !.pc = "written"], "updateClient",
                        [clientId |-> f.a.clientId,
                         attributes |-> Default(f.a.attributes, EmptyObj),
                         customAttributes |-> Default(f.a.customAttributes, EmptyObj)])
      [] OTHER -> Return(c, r)

upsertClient(c, f, r) ==
    CASE f.pc = "start" ->
            IF Falsy(f.a.clientId)
            THEN Invoke(c, [f EXCEPT !.pc = "written"], "createClient",
                        [attributes |-> Default(f.a.attributes, EmptyObj),
                         customAttributes |-> Default(f.a.customAttributes, EmptyObj)])
            ELSE Invoke(c, [f EXCEPT !.pc = "written"], "updateClient",
                        [clientId |-> f.a.clientId,
                         attributes |-> Default(f.a.attributes, EmptyObj),
                         customAttributes |-> Default(f.a.customAttributes, EmptyObj)])
      [] f.pc = "written" ->
            IF IsErr(r) THEN Return(c, r)
            ELSE Invoke(c, [f EXCEPT !.pc = "ret"], "getClient", [clientId |-> Get(r.val, "id")])
      [] OTHER -> Return(c, r)

closeClient(c, f, r) ==
    IF f.pc = "start"
    THEN Invoke(c, [f EXCEPT !.pc = "ret"], "updateClient",
                [clientId |-> f.a.clientId, attributes |-> Obj([statusId |-> JSInt(4)]),
                 customAttributes |-> UNDEF])
    ELSE Return(c, r)

deleteClient(c, f, r) ==
    IF f.pc = "start" THEN
        IF Falsy(f.a.clientId)
        THEN Return(c, CustomError(400, "Client ID Required for Deletion"))
        ELSE Invoke(c, [f EXCEPT !.pc = "ret"], "hitClientSuccessAPI",
                    Hit("DELETE", ClientPath(f.a.clientId), UNDEF))
    ELSE Return(c, r)

----------------------------------------------------------------------------
(* Contacts *)

\* encodeURIComponent on the characters the model uses: the reserved ones
\* are escaped, letters, digits and "." are kept.
RECURSIVE EncodeURIComponent(_)
EncodeURIComponent(s) ==
    IF s = <<>> THEN <<>>
    ELSE (CASE Head(s) = "@" -> <<"%", "4", "0">>
            [] Head(s) = "+" -> <<"%", "2", "B">>
            [] Head(s) = " " -> <<"%", "2", "0">>
            [] OTHER -> <<Head(s)>>) \o EncodeURIComponent(Tail(s))

ContactDetailsPath(clientId, contactId) ==
    [ep |-> "clients/:id/contacts/:id/details",
     ids |-> <<ToString(clientId), ToString(contactId)>>]

FirstError(r1, r2) == IF IsErr(r1) THEN r1 ELSE r2

\* The 417 of the provider handed on as it is.
getContact_Keep417(c, f, r) ==
    IF f.pc = "start" THEN
        LET v == FirstError(validateClientSuccessId(f.a.clientId),
                            validateClientSuccessId(f.a.contactId))
        IN  IF IsErr(v) THEN Return(c, v)
            ELSE Invoke(c, [f EXCEPT !.pc = "got"], "hitClientSuccessAPI",
                        Hit("GET", ContactDetailsPath(f.a.clientId, f.a.contactId), UNDEF))
    ELSE IF IsOk(r) THEN Return(c, r)
    ELSE Return(c, CustomError(r.status, r.message))

getContact(c, f, r) ==
    IF f.pc = "start" THEN
        LET v == FirstError(validateClientSuccessId(f.a.clientId),
                            validateClientSuccessId(f.a.contactId))
        IN  IF IsErr(v) THEN Return(c, v)
            ELSE Invoke(c, [f EXCEPT !.pc = "got"], "hitClientSuccessAPI",
                        Hit("GET", ContactDetailsPath(f.a.clientId, f.a.contactId), UNDEF))
    ELSE IF IsOk(r) THEN Return(c, r)
    ELSE IF r.status = 417 THEN Return(c, CustomError(404, "Contact not found"))
    ELSE Return(c, CustomError(r.status, r.message))

getContactByEmail(c, f, r) ==
    IF f.pc = "start" THEN
        IF Falsy(f.a.clientExternalId) \/ Falsy(f.a.contactEmail)
        THEN Return(c, CustomError(400,
                "Invalid clientExternalId or contactEmail for getContactByEmail"))
        ELSE Invoke(c, [f EXCEPT !.pc = "got"], "hitClientSuccessAPI",
                    Hit("GET", [ep |-> "contacts?clientExternalId&email",
                                ids |-> <<ToString(f.a.clientExternalId),
                                          EncodeURIComponent(ToString(f.a.contactEmail))>>],
                        UNDEF))
    ELSE IF IsErr(r) THEN Return(c, r)
    ELSE IF Falsy(r.val) THEN Return(c, CustomError(404, "Contact not found"))
    ELSE Return(c, r)

createContact(c, f, r) ==
    CASE f.pc = "start" ->
            IF IsErr(validateClientSuccessId(f.a.clientId))
            THEN Return(c, validateClientSuccessId(f.a.clientId))
            ELSE Invoke(c, [f EXCEPT !.pc = "posted"], "hitClientSuccessAPI",
                        Hit("POST", [ep |-> "clients/:id/contacts",
                                     ids |-> <<ToString(f.a.clientId)>>], f.a.attributes))
      [] f.pc = "posted" ->
            IF IsErr(r) THEN Return(c, r)
            ELSE IF Falsy(f.a.customAttributes) THEN Return(c, Ok(r.val))
            ELSE Invoke(c, [f EXCEPT !.pc = "ret"], "updateContact",
                        [clientId |-> f.a.clientId, contactId |-> Get(r.val, "id"),
                         attributes |-> f.a.attributes,
                         customAttributes |-> f.a.customAttributes])
      [] OTHER -> Return(c, r)

updateContact(c, f, r) ==
    CASE f.pc = "start" ->
            LET v == FirstError(validateClientSuccessId(f.a.clientId),
                                validateClientSuccessId(f.a.contactId))
            IN  IF IsErr(v) THEN Return(c, v)
                ELSE Invoke(c, [f EXCEPT !.pc = "got"], "getContact",
                            [clientId |-> f.a.clientId, contactId |-> f.a.contactId])
      [] f.pc = "got" ->
            IF IsErr(r) THEN Return(c, r)
            ELSE Invoke(c, [f EXCEPT !.pc = "ret"], "hitClientSuccessAPI",
                        Hit("PUT", ContactDetailsPath(f.a.clientId, f.a.contactId),
                            patchCustomAttributes(ObjectAssign(r.val, f.a.attributes),
                                                  f.a.customAttributes)))
      [] OTHER -> Return(c, r)

\* _.get(object, 'customFieldValues[0]')
FirstCustomField(object) ==
    LET v == Get(object, "customFieldValues")
    IN  IF v.t = "array" /\ Len(v.e) >= 1 THEN v.e[1] ELSE UNDEF

\* The end of the create-or-find branch of upsertContact.  contact is the
\* found or created contact and update the object that is patched: either
\* the shallow clone Object.assign({}, contact), which shares contact's
\* customFieldValues array (shared), or the contact fetched again.
upsertContactCompare(c, f, contact, update, shared) ==
    LET attributes == Default(f.a.attributes, EmptyObj)
        customAttributes == Default(f.a.customAttributes, EmptyObj)
        patched == patchCustomAttributes(update, customAttributes)
        contactNow == IF shared /\ "customFieldValues" \in DOMAIN contact.f
                      THEN ObjectAssign(contact,
                               Obj([customFieldValues |-> patched.f.customFieldValues]))
                      ELSE contact
    IN  IF ObjectAssign(patched, attributes) = contactNow
        THEN Return(c, Ok(contactNow))
        ELSE Invoke(c, [f EXCEPT !.pc = "ret"], "updateContact",
                    [clientId |-> f.a.clientId, contactId |-> Get(contact, "id"),
                     attributes |-> attributes, customAttributes |-> customAttributes])

\* contactId = contact.id, and the choice of the object to patch.
upsertContactFound(c, f, contact) ==
    IF Falsy(FirstCustomField(contact))
    THEN Invoke(c, [f EXCEPT !.pc = "refetched", !.l = [contact |-> contact]], "getContact",
                [clientId |-> f.a.clientId, contactId |-> Get(contact, "id")])
    ELSE upsertContactCompare(c, f, contact, contact, TRUE)

upsertContactStart(c, f) ==
    IF IsErr(validateClientSuccessId(f.a.clientId))
    THEN Return(c, validateClientSuccessId(f.a.clientId))
    ELSE IF Falsy(f.a.contactId)
    THEN Invoke(c, [f EXCEPT !.pc = "gotClient"], "getClient", [clientId |-> f.a.clientId])
    ELSE Invoke(c, [f EXCEPT !.pc = "ret"], "updateContact",
                [clientId |-> f.a.clientId, contactId |-> f.a.contactId,
                 attributes |-> Default(f.a.attributes, EmptyObj),
                 customAttributes |-> Default(f.a.customAttributes, EmptyObj)])

\* The 404 of the lookup by email raised like any other error: no contact is
\* created.
upsertContact_Rethrow404(c, f, r) ==
    CASE f.pc = "start" -> upsertContactStart(c, f)
      [] f.pc = "gotClient" ->
            IF IsErr(r) THEN Return(c, r)
            ELSE Invoke(c, [f EXCEPT !.pc = "looked"], "getContactByEmail",
                        [clientExternalId |-> Get(r.val, "externalId"),
                         contactEmail |-> Get(Default(f.a.attributes, EmptyObj), "email")])
      [] f.pc = "looked" ->
            IF IsOk(r) THEN upsertContactFound(c, f, r.val)
            ELSE Return(c, CustomError(r.status, r.message))
      [] f.pc = "refetched" ->
            IF IsErr(r) THEN Return(c, r)
            ELSE upsertContactCompare(c, f, f.l.contact, r.val, FALSE)
      [] OTHER -> Return(c, r)

\* A contact created after any failure of the lookup by email.
upsertContact_CreateOnAnyError(c, f, r) ==
    CASE f.pc = "start" -> upsertContactStart(c, f)
      [] f.pc = "gotClient" ->
            IF IsErr(r) THEN Return(c, r)
            ELSE Invoke(c, [f EXCEPT !.pc = "looked"], "getContactByEmail",
                        [clientExternalId |-> Get(r.val, "externalId"),
                         contactEmail |-> Get(Default(f.a.attributes, EmptyObj), "email")])
      [] f.pc = "looked" ->
            IF IsOk(r) THEN upsertContactFound(c, f, r.val)
            ELSE Invoke(c, [f EXCEPT !.pc = "created"], "createContact",
                        [clientId |-> f.a.clientId,
                         attributes |-> Default(f.a.attributes, EmptyObj),
                         customAttributes |-> Default(f.a.customAttributes, EmptyObj)])
      [] f.pc = "created" ->
            IF IsErr(r) THEN Return(c, r) ELSE upsertContactFound(c, f, r.val)
      [] f.pc = "refetched" ->
            IF IsErr(r) THEN Return(c, r)
            ELSE upsertContactCompare(c, f, f.l.contact, r.val, FALSE)
      [] OTHER -> Return(c, r)

upsertContact(c, f, r) ==
    CASE f.pc = "start" -> upsertContactStart(c, f)
      [] f.pc = "gotClient" ->
            IF IsErr(r) THEN Return(c, r)
            ELSE Invoke(c, [f EXCEPT !.pc = "looked"], "getContactByEmail",
                        [clientExternalId |-> Get(r.val, "externalId"),
                         contactEmail |-> Get(Default(f.a.attributes, EmptyObj), "email")])
      [] f.pc = "looked" ->
            IF IsOk(r) THEN upsertContactFound(c, f, r.val)
            ELSE IF r.status = 404
            THEN Invoke(c, [f EXCEPT !.pc = "created"], "createContact",
                        [clientId |-> f.a.clientId,
                         attributes |-> Default(f.a.attributes, EmptyObj),
                         customAttributes |-> Default(f.a.customAttributes, EmptyObj)])
            ELSE Return(c, CustomError(r.status, r.message))
      [] f.pc = "created" ->
            IF IsErr(r) THEN Return(c, r) ELSE upsertContactFound(c, f, r.val)
      [] f.pc = "refetched" ->
            IF IsErr(r) THEN Return(c, r)
            ELSE upsertContactCompare(c, f, f.l.contact, r.val, FALSE)
      [] OTHER -> Return(c, r)

\* The ownership check dropped: any contact that can be fetched is deleted.
doesContactBelongToClient_NoCompare(c, f, r) ==
    IF f.pc = "start"
    THEN Invoke(c, [f EXCEPT !.pc = "got"], "getContact",
                [clientId |-> f.a.clientId, contactId |-> f.a.contactId])
    ELSE Return(c, Ok(Bool(TRUE)))

doesContactBelongToClient(c, f, r) ==
    IF f.pc = "start"
    THEN Invoke(c, [f EXCEPT !.pc = "got"], "getContact",
                [clientId |-> f.a.clientId, contactId |-> f.a.contactId])
    ELSE IF IsErr(r) THEN Return(c, Ok(Bool(FALSE)))
    ELSE Return(c, Ok(Bool(Str(ToString(Get(r.val, "clientId"))) = f.a.clientId)))

deleteContact(c, f, r) ==
    CASE f.pc = "start" ->
            IF Falsy(f.a.clientId) \/ Falsy(f.a.contactId)
            THEN Return(c, CustomError(400, "Client ID and Contact ID Required for Deletion"))
            ELSE Invoke(c, [f EXCEPT !.pc = "checked"], "doesContactBelongToClient",
                        [clientId |-> f.a.clientId, contactId |-> f.a.contactId])
      [] f.pc = "checked" ->
            IF Falsy(r.val)
            THEN Return(c, CustomError(404, "Client not found for contact with that id"))
            ELSE Invoke(c, [f EXCEPT !.pc = "ret"], "hitClientSuccessAPI",
                        Hit("DELETE", [ep |-> "clients/:id/contacts/:id",
                                       ids |-> <<ToString(f.a.clientId),
                                                 ToString(f.a.contactId)>>], UNDEF))
      [] OTHER -> Return(c, r)

----------------------------------------------------------------------------
(* Products, subscriptions and activity *)

deleteProduct(c, f, r) ==
    IF f.pc = "start" THEN
        IF Falsy(f.a.productId)
        THEN Return(c, CustomError(400, "Product ID Required for Deletion"))
        ELSE Invoke(c, [f EXCEPT !.pc = "ret"], "hitClientSuccessAPI",
                    Hit("DELETE", [ep |-> "products/:id",
                                   ids |-> <<ToString(f.a.productId)>>], UNDEF))
    ELSE Return(c, r)

\* A subscription counts as active when it is not potential and has no
\* termination date or no renewal date.
IsActiveSubscription(subscription) ==
    /\ Get(subscription, "isPotential") = Bool(FALSE)
    /\ \/ Get(subscription, "terminationDate") = NULL
       \/ Get(subscription, "renewedDate") = NULL

getClientActiveSubscriptions(c, f, r) ==
    IF f.pc = "start" THEN
        IF IsErr(validateClientSuccessId(f.a.clientID))
        THEN Return(c, validateClientSuccessId(f.a.clientID))
        ELSE Invoke(c, [f EXCEPT !.pc = "got"], "hitClientSuccessAPI",
                    Hit("GET", [ep |-> "subscriptions?clientId",
                                ids |-> <<ToString(f.a.clientID)>>], UNDEF))
    ELSE IF IsErr(r) THEN Return(c, r)
    ELSE IF r.val.t # "array" THEN Return(c, TypeError)
    ELSE IF Len(r.val.e) = 0
    THEN Return(c, CustomError(404, "No subscriptions found for client"))
    ELSE IF \E i \in DOMAIN r.val.e : Get(r.val.e[i], "isPotential") = UNDEF
    THEN Return(c, CustomError(404, "Subscription isPotential attribute does not exist."))
    ELSE Return(c, Ok(Arr(SelectSeq(r.val.e, IsActiveSubscription))))

createClientSubscription(c, f, r) ==
    IF f.pc = "start" THEN
        IF IsErr(validateClientSuccessId(f.a.clientID))
        THEN Return(c, validateClientSuccessId(f.a.clientID))
        ELSE Invoke(c, [f EXCEPT !.pc = "ret"], "hitClientSuccessAPI",
                    Hit("POST", [ep |-> "subscriptions", ids |-> <<>>],
                        ObjectAssign(ObjectAssign(EmptyObj, f.a.attributes),
                                     Obj([clientId |-> f.a.clientID]))))
    ELSE Return(c, r)

updateClientSubscription(c, f, r) ==
    IF f.pc = "start" THEN
        IF Falsy(Get(f.a.subscriptionObject, "id"))
        THEN Return(c, CustomError(400, "Passed subscription object does not have an ID"))
        ELSE Invoke(c, [f EXCEPT !.pc = "ret"], "hitClientSuccessAPI",
                    Hit("PUT", [ep |-> "subscriptions/:id",
                                ids |-> <<ToString(Get(f.a.subscriptionObject, "id"))>>],
                        ObjectAssign(f.a.subscriptionObject, f.a.attributesToUpdate)))
    ELSE Return(c, r)

deleteClientSubscription(c, f, r) ==
    IF f.pc = "start" THEN
        IF Falsy(f.a.subscriptionID)
        THEN Return(c, CustomError(400, "Subscription ID Not Provided"))
        ELSE Invoke(c, [f EXCEPT !.pc = "ret"], "hitClientSuccessAPI",
                    Hit("DELETE", [ep |-> "subscriptions/:id",
                                   ids |-> <<ToString(f.a.subscriptionID)>>], UNDEF))
    ELSE Return(c, r)

\* What axios throws for a failed request when nothing catches it: an error
\* of axios, with no status field of its own.
\* _.find(this.clientTypes, { title }): the first element with that title,
\* and nothing in a value that is no collection.
RECURSIVE FindByTitle(_, _)
FindByTitle(e, title) ==
    IF e = <<>> THEN UNDEF
    ELSE IF Get(Head(e), "title") = title THEN Head(e)
    ELSE FindByTitle(Tail(e), title)

\* The part of getClientTypeId after the cache is there.
getClientTypeIdFind(c, types, title) ==
    IF types.t = "array" /\ FindByTitle(types.e, title) # UNDEF
    THEN Return(c, Ok(Get(FindByTitle(types.e, title), "id")))
    ELSE Return(c, CustomError(404, "Requested client type was not found"))

\* The list fetched by every call, whatever is cached.
getClientTypeId_NoCache(c, f, r) ==
    IF f.pc = "start" THEN
        IF Falsy(f.a.clientTypeString)
        THEN Return(c, CustomError(400, "No clientTypeString provided in getClientTypeId"))
        ELSE Invoke(c, [f EXCEPT !.pc = "fetched"], "hitClientSuccessAPI",
                    Hit("GET", [ep |-> "client-segments", ids |-> <<>>], UNDEF))
    ELSE IF IsErr(r) THEN Return(c, r)
    ELSE getClientTypeIdFind([c EXCEPT !.types = r.val], r.val, f.a.clientTypeString)

getClientTypeId(c, f, r) ==
    IF f.pc = "start" THEN
        IF Falsy(f.a.clientTypeString)
        THEN Return(c, CustomError(400, "No clientTypeString provided in getClientTypeId"))
        ELSE IF Falsy(c.types)
        THEN Invoke(c, [f EXCEPT !.pc = "fetched"], "hitClientSuccessAPI",
                    Hit("GET", [ep |-> "client-segments", ids |-> <<>>], UNDEF))
        ELSE getClientTypeIdFind(c, c.types, f.a.clientTypeString)
    ELSE IF IsErr(r) THEN Return(c, r)
    ELSE getClientTypeIdFind([c EXCEPT !.types = r.val], r.val, f.a.clientTypeString)

AxiosError == [k |-> "err", kind |-> "AxiosError", status |-> -1, message |-> "Request failed"]

trackActivity(c, f, r) ==
    CASE f.pc = "start" ->
            IF IsErr(validateClientSuccessId(f.a.clientID))
            THEN Return(c, validateClientSuccessId(f.a.clientID))
            ELSE Invoke(c, [f EXCEPT !.pc = "gotClient"], "getClient",
                        [clientId |-> f.a.clientID])
      [] f.pc = "gotClient" ->
            IF IsErr(r) THEN Return(c, r)
            ELSE Await(c, [f EXCEPT !.pc = "sent"],
                       [kind |-> "raw", method |-> "POST",
                        data |-> Obj([organization |-> Get(r.val, "id"),
                                      user |-> IF Falsy(f.a.contactID) THEN UNDEF
                                               ELSE f.a.contactID])])
      [] OTHER ->
            IF r.status \in 200..299 THEN Return(c, Ok(r.data)) ELSE Return(c, AxiosError)

----------------------------------------------------------------------------
(* Running the code of one caller up to its next axios request *)

Step(c) ==
    LET f == Top(c)
        r == c.in
    IN  CASE f.m = "authenticate" -> authenticate(c, f, r)
          [] f.m = "hitClientSuccessAPI" -> hitClientSuccessAPI(c, f, r)
          [] f.m = "getClient" -> getClient(c, f, r)
          [] f.m = "getClientByExternalId" -> getClientByExternalId(c, f, r)
          [] f.m = "createClient" -> createClient(c, f, r)
          [] f.m = "updateClient" -> updateClient(c, f, r)
          [] f.m = "upsertClient" -> upsertClient(c, f, r)
          [] f.m = "closeClient" -> closeClient(c, f, r)
          [] f.m = "deleteClient" -> deleteClient(c, f, r)
          [] f.m = "getContact" -> getContact(c, f, r)
          [] f.m = "getContactByEmail" -> getContactByEmail(c, f, r)
          [] f.m = "createContact" -> createContact(c, f, r)
          [] f.m = "updateContact" -> updateContact(c, f, r)
          [] f.m = "upsertContact" -> upsertContact(c, f, r)
          [] f.m = "deleteContact" -> deleteContact(c, f, r)
          [] f.m = "doesContactBelongToClient" -> doesContactBelongToClient(c, f, r)
          [] f.m = "getClientTypeId" -> getClientTypeId(c, f, r)
          [] f.m = "deleteProduct" -> deleteProduct(c, f, r)
          [] f.m = "getClientActiveSubscriptions" -> getClientActiveSubscriptions(c, f, r)
          [] f.m = "createClientSubscription" -> createClientSubscription(c, f, r)
          [] f.m = "updateClientSubscription" -> updateClientSubscription(c, f, r)
          [] f.m = "deleteClientSubscription" -> deleteClientSubscription(c, f, r)
          [] OTHER -> trackActivity(c, f, r)

\* The code runs until it awaits axios or the call has ended.
RECURSIVE Run(_)
Run(c) == IF c.stack = <<>> \/ c.wait # NoReq THEN c ELSE Run(Step(c))

----------------------------------------------------------------------------
(* The provider: the ClientSuccess API behind axios *)

MaxId == 5          \* the provider creates records while nextId <= MaxId
MaxFaults == 1      \* 401 answers and token-less auth answers per behaviour
MaxCalls == 2       \* public calls per behaviour

Resp(status, data) == [k |-> "resp", status |-> status, data |-> data]
Outcome(resp, cl, co, nid) == [resp |-> resp, clients |-> cl, contacts |-> co, nextId |-> nid]
Same(resp) == Outcome(resp, clients, contacts, nextId)

TokenValue == Str(<<"t", "o", "k">>)

ClientDefaults(id) ==
    Obj([id |-> JSInt(id), name |-> NULL, externalId |-> NULL, statusId |-> JSInt(1),
         customFieldValues |-> Arr(<<Obj([label |-> "Account Notes", value |-> NULL])>>)])

ContactDefaults(id, clientId) ==
    Obj([id |-> JSInt(id), clientId |-> clientId, email |-> NULL, firstName |-> NULL,
         customFieldValues |-> Arr(<<Obj([label |-> "External ID", value |-> NULL])>>)])

\* A create response carries no clean custom fields, only null.
WithoutCustomFields(record) == ObjectAssign(record, Obj([customFieldValues |-> NULL]))

RECURSIVE DecodeURIComponent(_)
DecodeURIComponent(s) ==
    IF s = <<>> THEN <<>>
    ELSE IF Len(s) >= 3 /\ s[1] = "%" THEN
        (CASE <<s[2], s[3]>> = <<"4", "0">> -> <<"@">>
           [] <<s[2], s[3]>> = <<"2", "B">> -> <<"+">>
           [] <<s[2], s[3]>> = <<"2", "0">> -> <<" ">>
           [] OTHER -> <<"?">>) \o DecodeURIComponent(SubSeq(s, 4, Len(s)))
    ELSE <<Head(s)>> \o DecodeURIComponent(Tail(s))

Min(S) == CHOOSE x \in S : \A y \in S : x <= y

ClientsAt(seg) == {i \in DOMAIN clients : ToString(clients[i].f.id) = seg}
ContactsAt(seg) == {i \in DOMAIN contacts : ToString(contacts[i].f.id) = seg}
ClientsByExternalId(seg) == {i \in DOMAIN clients : clients[i].f.externalId = Str(seg)}
ContactsByEmail(ext, email) ==
    {i \in DOMAIN contacts :
        /\ contacts[i].f.email = Str(email)
        /\ \E j \in ClientsByExternalId(ext) : contacts[i].f.clientId = clients[j].f.id}

Put(store, i, record) == [j \in DOMAIN store \cup {i} |-> IF j = i THEN record ELSE store[j]]
Drop(store, i) == [j \in DOMAIN store \ {i} |-> store[j]]

\* What the provider answers to an authorized request when it is up.
Served(req) ==
    LET ep == req.path.ep
        ids == req.path.ids
    IN
    CASE ep = "clients/:id" /\ ClientsAt(ids[1]) = {} -> {Same(Resp(404, NULL))}
      [] ep = "clients/:id" /\ ClientsAt(ids[1]) # {} ->
            LET i == Min(ClientsAt(ids[1])) IN
            CASE req.method = "GET" -> {Same(Resp(200, clients[i]))}
              [] req.method = "PUT" ->
                    LET rec == ObjectAssign(req.data, Obj([id |-> clients[i].f.id]))
                    IN  {Outcome(Resp(200, rec), Put(clients, i, rec), contacts, nextId)}
              [] req.method = "DELETE" ->
                    {Outcome(Resp(200, NULL), Drop(clients, i), contacts, nextId)}
              [] OTHER -> {Same(Resp(404, NULL))}
      [] ep = "clients/?externalId" ->
            IF ClientsByExternalId(ids[1]) = {} THEN {Same(Resp(404, NULL))}
            ELSE {Same(Resp(200, clients[Min(ClientsByExternalId(ids[1]))]))}
      [] ep = "clients" ->
            IF nextId > MaxId THEN {}
            ELSE LET rec == ObjectAssign(ObjectAssign(ClientDefaults(nextId), req.data),
                                         Obj([id |-> JSInt(nextId)]))
                 IN  {Outcome(Resp(201, WithoutCustomFields(rec)),
                              Put(clients, nextId, rec), contacts, nextId + 1)}
      [] ep = "clients/:id/contacts/:id/details" ->
            IF ContactsAt(ids[2]) = {} THEN {Same(Resp(417, NULL))}
            ELSE LET i == Min(ContactsAt(ids[2])) IN
                 IF ToString(contacts[i].f.clientId) # ids[1]
                 THEN \* the contact of another client: refused, or served all the same
                      {Same(Resp(417, NULL))}
                        \cup (IF req.method = "GET" THEN {Same(Resp(200, contacts[i]))} ELSE {})
                 ELSE IF req.method = "GET" THEN {Same(Resp(200, contacts[i]))}
                 ELSE LET rec == ObjectAssign(req.data,
                                     Obj([id |-> contacts[i].f.id,
                                          clientId |-> contacts[i].f.clientId]))
                      IN  {Outcome(Resp(200, rec), clients, Put(contacts, i, rec), nextId)}
      [] ep = "contacts?clientExternalId&email" ->
            LET found == ContactsByEmail(ids[1], DecodeURIComponent(ids[2])) IN
            IF found = {} THEN {Same(Resp(404, NULL)), Same(Resp(200, NULL))}
            ELSE {Same(Resp(200, contacts[Min(found)])),
                  Same(Resp(200, WithoutCustomFields(contacts[Min(found)])))}
      [] ep = "clients/:id/contacts" ->
            IF ClientsAt(ids[1]) = {} THEN {Same(Resp(404, NULL))}
            ELSE IF nextId > MaxId THEN {}
            ELSE LET rec == ObjectAssign(
                                ObjectAssign(ContactDefaults(nextId,
                                                 clients[Min(ClientsAt(ids[1]))].f.id),
                                             req.data),
                                Obj([id |-> JSInt(nextId)]))
                 IN  {Outcome(Resp(201, WithoutCustomFields(rec)),
                              clients, Put(contacts, nextId, rec), nextId + 1)}
      [] ep = "clients/:id/contacts/:id" ->
            \* DELETE looks at the contact id alone
            IF ContactsAt(ids[2]) = {} THEN {Same(Resp(404, NULL))}
            ELSE {Outcome(Resp(200, NULL), clients, Drop(contacts, Min(ContactsAt(ids[2]))),
                          nextId)}
      [] ep = "subscriptions?clientId" ->
            {Same(Resp(200, Arr(<<>>))),
             Same(Resp(200, Arr(<<Obj([id |-> JSInt(7), isPotential |-> Bool(FALSE),
                                       terminationDate |-> NULL, renewedDate |-> NULL]),
                                  Obj([id |-> JSInt(8), isPotential |-> Bool(TRUE),
                                       terminationDate |-> NULL, renewedDate |-> NULL])>>)))}
      [] ep = "client-segments" ->
            \* the provider's list of client types, as it stands at the time
            {Same(Resp(200, Arr(<<Obj([id |-> JSInt(1), title |-> Str(<<"A">>)])>>))),
             Same(Resp(200, Arr(<<Obj([id |-> JSInt(1), title |-> Str(<<"A">>)]),
                                  Obj([id |-> JSInt(2), title |-> Str(<<"B">>)])>>)))}
      [] OTHER -> \* products and subscriptions by id: there, or not
            {Same(Resp(200, NULL)), Same(Resp(404, NULL))}

\* Every status the API answers with when nothing is known of the request.
AnyStatus == {200, 401, 503, 417, 404, 400, 500, 0}

\* The answers to the API request req.
ApiOutcomes(req) ==
    IF req.path.ep = "products" THEN
        {Same(Resp(st, IF st = 200 THEN Arr(<<>>) ELSE NULL)) :
            st \in IF Falsy(req.auth) THEN {401} ELSE AnyStatus}
    ELSE IF Falsy(req.auth) THEN {Same(Resp(401, NULL))}
    ELSE Served(req) \cup {Same(Resp(503, NULL))}
            \cup (IF budget > 0 THEN {Same(Resp(401, NULL))} ELSE {})

\* The answers of the auth endpoint.
AuthOutcomes ==
    {Resp(200, Obj([access_token |-> TokenValue])), Resp(401, NULL), Resp(500, NULL),
     Resp(0, NULL)}
        \cup (IF budget > 0 THEN {Resp(200, EmptyObj)} ELSE {})

\* Whether the answer is one of the faults the budget counts.
IsBudgeted(req, resp) ==
    \/ req.kind = "auth" /\ resp.status = 200 /\ Falsy(Get(resp.data, "access_token"))
    \/ req.kind = "api" /\ resp.status = 401 /\ ~Falsy(req.auth)

----------------------------------------------------------------------------
(* Actions *)

\* The callers of the one instance: one at a time, or two whose calls overlap.
Callers == {1, 2}
Solo == {1}

Idle(p) == stack[p] = <<>>

NoTwin == [stack |-> <<>>, none |-> TRUE]
NoPrev == [externalId |-> UNDEF, id |-> UNDEF]

\* The variables of caller p and of the instance after its code has run to c.
Commit(p, c) ==
    /\ authToken' = c.tok
    /\ clientTypes' = c.types
    /\ stack' = [stack EXCEPT ![p] = c.stack]
    /\ wait' = [wait EXCEPT ![p] = c.wait]
    /\ hist' = [hist EXCEPT ![p] = c.hist]
    /\ result' = [result EXCEPT ![p] = IF c.stack = <<>> THEN c.in ELSE NoResult]

Begin(m, a) ==
    Run([stack |-> <<Frame(m, a)>>, in |-> NoResult, wait |-> NoReq,
         tok |-> authToken, types |-> clientTypes, hist |-> NewHist])

\* The arguments a with a blank optional id left out.
WithoutBlankId(m, a) ==
    IF m = "upsertClient" /\ a.clientId = Str(<<>>) THEN [a EXCEPT !.clientId = UNDEF]
    ELSE IF m = "upsertContact" /\ a.contactId = Str(<<>>) THEN [a EXCEPT !.contactId = UNDEF]
    ELSE a

\* What the call that ends now leaves for the next one to compare with.
UpsertSummary(p) ==
    IF /\ call[p].m = "upsertClient"
       /\ Falsy(call[p].a.clientId)
       /\ IsOk(result[p])
    THEN [externalId |-> Get(Default(call[p].a.attributes, EmptyObj), "externalId"),
          id |-> Get(result[p].val, "id")]
    ELSE NoPrev

\* Caller p calls method m with arguments a.
StartCall(p, m, a) ==
    /\ Idle(p)
    /\ ncalls < MaxCalls
    /\ ncalls' = ncalls + 1
    /\ call' = [call EXCEPT ![p] = [m |-> m, a |-> a]]
    /\ Commit(p, Begin(m, a))
    /\ pre' = [pre EXCEPT ![p] = [clients |-> clients, contacts |-> contacts,
                                  types |-> clientTypes]]
    /\ prev' = [prev EXCEPT ![p] = UpsertSummary(p)]
    /\ twin' = [twin EXCEPT ![p] = IF WithoutBlankId(m, a) = a THEN NoTwin
                                   ELSE Begin(m, WithoutBlankId(m, a))]
    /\ UNCHANGED <<clients, contacts, nextId, budget, probe>>

\* The code of caller p resumes with the response resp of its request; the
\* twin call resumes with the same response when it waits for the same
\* request.
Resume(p, resp) ==
    /\ Commit(p, Run([stack |-> stack[p], in |-> resp, wait |-> NoReq,
                      tok |-> authToken, types |-> clientTypes, hist |-> hist[p]]))
    /\ twin' = [twin EXCEPT ![p] =
                    IF twin[p] # NoTwin /\ twin[p].stack # <<>> /\ twin[p].wait = wait[p]
                    THEN Run([twin[p] EXCEPT !.in = resp, !.wait = NoReq])
                    ELSE twin[p]]
    /\ UNCHANGED <<pre, prev>>

Spend(req, resp) == budget' = IF IsBudgeted(req, resp) THEN budget - 1 ELSE budget

\* The auth endpoint answers caller p.
AuthRespond(p) ==
    /\ wait[p].kind = "auth"
    /\ \E resp \in AuthOutcomes :
        /\ Resume(p, resp)
        /\ Spend(wait[p], resp)
    /\ UNCHANGED <<clients, contacts, nextId, call, ncalls, probe>>

\* The API answers caller p.
ApiRespond(p) ==
    /\ wait[p].kind = "api"
    /\ \E o \in ApiOutcomes(wait[p]) :
        /\ clients' = o.clients
        /\ contacts' = o.contacts
        /\ nextId' = o.nextId
        /\ Resume(p, o.resp)
        /\ Spend(wait[p], o.resp)
    /\ UNCHANGED <<call, ncalls, probe>>

\* The events collector answers caller p.
EventsRespond(p) ==
    /\ wait[p].kind = "raw"
    /\ \E st \in {201, 400, 0} : Resume(p, Resp(st, Obj([status |-> JSInt(st)])))
    /\ UNCHANGED <<clients, contacts, nextId, budget, call, ncalls, probe>>

CallAuthenticate(p) ==
    /\ Idle(p)
    /\ StartCall(p, "authenticate", <<>>)

CallHitClientSuccessAPI(p) ==
    /\ Idle(p)
    /\ \E method \in {"", "GET"} :
            StartCall(p, "hitClientSuccessAPI",
                      Hit(method, [ep |-> "products", ids |-> <<>>], UNDEF))

----------------------------------------------------------------------------
\* The ids the callers of the reconciling operations pass: none, blank,
\* a number, its digits, the id of another record, the id of no record.
ClientIdArgs == {UNDEF, Str(<<>>), JSInt(1), Str(<<"1">>), Str(<<"2">>)}
ContactIdArgs == {UNDEF, Str(<<>>), Str(<<"3">>), Str(<<"9">>)}

ClientAttributeArgs ==
    {Obj([name |-> Str(<<"A">>), externalId |-> Str(<<"x">>)]),
     Obj([name |-> Str(<<"B">>), externalId |-> Str(<<"y">>)])}

ClientCustomArgs == {UNDEF, Obj([k \in {"Account Notes"} |-> Str(<<"n">>)])}

ContactAttributeArgs ==
    {Obj([email |-> Str(<<"m", "@", "x">>), firstName |-> Str(<<"A">>)]),
     Obj([email |-> Str(<<"n", "@", "x">>), firstName |-> Str(<<"B">>)])}

ContactCustomArgs == {UNDEF, Obj([k \in {"External ID"} |-> Str(<<"e">>)])}

CallUpsertClient(p) ==
    /\ Idle(p)
    /\ \E clientId \in ClientIdArgs, attributes \in ClientAttributeArgs \cup {UNDEF},
          customAttributes \in ClientCustomArgs :
            StartCall(p, "upsertClient",
                      [clientId |-> clientId, attributes |-> attributes,
                       customAttributes |-> customAttributes])

\* upsertClient({ attributes }) with an externalId and nothing else.
CallUpsertByExternalId(p) ==
    /\ Idle(p)
    /\ \E attributes \in ClientAttributeArgs :
            StartCall(p, "upsertClient",
                      [clientId |-> UNDEF, attributes |-> attributes,
                       customAttributes |-> UNDEF])

CallCreateClient(p) ==
    /\ Idle(p)
    /\ \E attributes \in ClientAttributeArgs, customAttributes \in ClientCustomArgs :
            StartCall(p, "createClient",
                      [attributes |-> attributes, customAttributes |-> customAttributes])

CallUpdateClient(p) ==
    /\ Idle(p)
    /\ \E clientId \in ClientIdArgs, attributes \in ClientAttributeArgs,
          customAttributes \in ClientCustomArgs :
            StartCall(p, "updateClient",
                      [clientId |-> clientId, attributes |-> attributes,
                       customAttributes |-> customAttributes])

CallDeleteClient(p) ==
    /\ Idle(p)
    /\ \E clientId \in ClientIdArgs :
            StartCall(p, "deleteClient", [clientId |-> clientId])

CallUpsertContact(p) ==
    /\ Idle(p)
    /\ \E clientId \in ClientIdArgs, contactId \in ContactIdArgs,
          attributes \in ContactAttributeArgs \cup {UNDEF},
          customAttributes \in ContactCustomArgs :
            StartCall(p, "upsertContact",
                      [clientId |-> clientId, contactId |-> contactId,
                       attributes |-> attributes, customAttributes |-> customAttributes])

CallDeleteContact(p) ==
    /\ Idle(p)
    /\ \E clientId \in ClientIdArgs, contactId \in ContactIdArgs :
            StartCall(p, "deleteContact", [clientId |-> clientId, contactId |-> contactId])

----------------------------------------------------------------------------
(* Calls with every kind of id *)

\* What a caller may pass for an id: nothing, null, the empty string, a
\* number, its digits, the digits of another record, letters, digits
\* followed by a letter, a fraction.
IdArgs ==
    {UNDEF, NULL, Str(<<>>), JSInt(1), Str(<<"1">>), Str(<<"3">>), Str(<<"a">>),
     Str(<<"1", "a">>), Num(FALSE, 1, 5)}

SomeAttributes == Obj([firstName |-> Str(<<"C">>)])

CallGetClientTypeId(p) ==
    /\ Idle(p)
    /\ \E clientTypeString \in {UNDEF, Str(<<"A">>), Str(<<"B">>)} :
            StartCall(p, "getClientTypeId", [clientTypeString |-> clientTypeString])

CallGetClient(p) ==
    /\ Idle(p)
    /\ \E clientId \in IdArgs : StartCall(p, "getClient", [clientId |-> clientId])

CallCloseClient(p) ==
    /\ Idle(p)
    /\ \E clientId \in IdArgs : StartCall(p, "closeClient", [clientId |-> clientId])

CallUpdateClientById(p) ==
    /\ Idle(p)
    /\ \E clientId \in IdArgs :
            StartCall(p, "updateClient",
                      [clientId |-> clientId, attributes |-> SomeAttributes,
                       customAttributes |-> UNDEF])

CallDeleteClientById(p) ==
    /\ Idle(p)
    /\ \E clientId \in IdArgs : StartCall(p, "deleteClient", [clientId |-> clientId])

CallGetContact(p) ==
    /\ Idle(p)
    /\ \E clientId \in IdArgs, contactId \in IdArgs :
            StartCall(p, "getContact", [clientId |-> clientId, contactId |-> contactId])

CallCreateContact(p) ==
    /\ Idle(p)
    /\ \E clientId \in IdArgs :
            StartCall(p, "createContact",
                      [clientId |-> clientId, attributes |-> SomeAttributes,
                       customAttributes |-> UNDEF])

CallUpdateContact(p) ==
    /\ Idle(p)
    /\ \E clientId \in IdArgs, contactId \in IdArgs :
            StartCall(p, "updateContact",
                      [clientId |-> clientId, contactId |-> contactId,
                       attributes |-> SomeAttributes, customAttributes |-> UNDEF])

CallUpsertContactById(p) ==
    /\ Idle(p)
    /\ \E clientId \in IdArgs, contactId \in {UNDEF, Str(<<"3">>)} :
            StartCall(p, "upsertContact",
                      [clientId |-> clientId, contactId |-> contactId,
                       attributes |-> SomeAttributes, customAttributes |-> UNDEF])

CallDeleteContactById(p) ==
    /\ Idle(p)
    /\ \E clientId \in IdArgs, contactId \in IdArgs :
            StartCall(p, "deleteContact", [clientId |-> clientId, contactId |-> contactId])

CallDeleteProduct(p) ==
    /\ Idle(p)
    /\ \E productId \in IdArgs : StartCall(p, "deleteProduct", [productId |-> productId])

CallGetClientActiveSubscriptions(p) ==
    /\ Idle(p)
    /\ \E clientID \in IdArgs :
            StartCall(p, "getClientActiveSubscriptions", [clientID |-> clientID])

CallCreateClientSubscription(p) ==
    /\ Idle(p)
    /\ \E clientID \in IdArgs :
            StartCall(p, "createClientSubscription",
                      [clientID |-> clientID, attributes |-> EmptyObj])

CallUpdateClientSubscription(p) ==
    /\ Idle(p)
    /\ \E id \in IdArgs :
            StartCall(p, "updateClientSubscription",
                      [subscriptionObject |-> Obj([id |-> id]),
                       attributesToUpdate |-> EmptyObj])

CallDeleteClientSubscription(p) ==
    /\ Idle(p)
    /\ \E subscriptionID \in IdArgs :
            StartCall(p, "deleteClientSubscription", [subscriptionID |-> subscriptionID])

CallTrackActivity(p) ==
    /\ Idle(p)
    /\ \E clientID \in IdArgs, contactID \in {UNDEF, Str(<<"3">>)} :
            StartCall(p, "trackActivity", [clientID |-> clientID, contactID |-> contactID])

----------------------------------------------------------------------------
(* The validator on its own *)

MaxIdLen == 3
IdAlphabet == {"0", "1", "7", "a", ".", "-", " "}

\* Every value the validator is tried on: the strings of up to MaxIdLen
\* characters, small numbers with a sign and a fraction, and the values that
\* are no id at all.
IdValues ==
    {Str(s) : s \in UNION {[1..n -> IdAlphabet] : n \in 0..MaxIdLen}}
        \cup {Num(neg, int, frac) : neg \in BOOLEAN, int \in 0..2, frac \in {0, 5}}
        \cup {UNDEF, NULL, NAN}

Validate ==
    /\ probe.fn = "validateClientSuccessId"
    /\ probe.out = NoResult
    /\ probe' = [probe EXCEPT !.out = validateClientSuccessId(probe.in)]
    /\ UNCHANGED <<authToken, clientTypes, clients, contacts, stack, wait, hist, call,
                   result, ncalls, nextId, budget, pre, prev, twin>>

----------------------------------------------------------------------------
(* The custom-field patcher on its own *)

MaxFields == 2
\* A custom field: one of two labels, with no value yet or with one.
FieldEntries ==
    {Obj([label |-> l, value |-> v]) : l \in {"a", "b"}, v \in {NULL, Str(<<"n">>)}}

\* The records the patcher is tried on: with up to MaxFields custom fields,
\* with customFieldValues null, and with none.
PatchObjects ==
    {Obj([id |-> JSInt(1), customFieldValues |-> Arr(e)]) :
        e \in UNION {[1..n -> FieldEntries] : n \in 0..MaxFields}}
        \cup {Obj([id |-> JSInt(1), customFieldValues |-> NULL]), Obj([id |-> JSInt(1)])}

\* The mappings from labels (one of them the label of no field) to values,
\* and no mapping at all.
PatchMappings ==
    UNION {{Obj(m) : m \in [K -> {Str(<<"n">>), Str(<<"m">>)}]} : K \in SUBSET {"a", "b", "c"}}
        \cup {UNDEF, NULL}

Patch ==
    /\ probe.fn = "patchCustomAttributes"
    /\ probe.once = NoResult
    /\ probe' = [probe EXCEPT
                    !.once = patchCustomAttributes(probe.object, probe.customAttributes)]
    /\ UNCHANGED <<authToken, clientTypes, clients, contacts, stack, wait, hist, call,
                   result, ncalls, nextId, budget, pre, prev, twin>>

PatchAgain ==
    /\ probe.fn = "patchCustomAttributes"
    /\ probe.once # NoResult
    /\ probe.twice = NoResult
    /\ probe' = [probe EXCEPT
                    !.twice = patchCustomAttributes(probe.once, probe.customAttributes)]
    /\ UNCHANGED <<authToken, clientTypes, clients, contacts, stack, wait, hist, call,
                   result, ncalls, nextId, budget, pre, prev, twin>>

----------------------------------------------------------------------------
(* Initial states and specifications *)

InitProvider ==
    /\ clients = [i \in {1, 2} |->
            IF i = 1
            THEN ObjectAssign(ClientDefaults(1), Obj([name |-> Str(<<"A">>),
                                                      externalId |-> Str(<<"x">>)]))
            ELSE ObjectAssign(ClientDefaults(2), Obj([name |-> Str(<<"B">>)]))]
    /\ contacts = [i \in {3} |->
            ObjectAssign(ContactDefaults(3, JSInt(1)),
                         Obj([email |-> Str(<<"m", "@", "x">>), firstName |-> Str(<<"A">>)]))]
    /\ nextId = 4

InitInstance ==
    /\ authToken = NULL
    /\ clientTypes = NULL
    /\ stack = [p \in Callers |-> <<>>]
    /\ wait = [p \in Callers |-> NoReq]
    /\ hist = [p \in Callers |-> NewHist]
    /\ call = [p \in Callers |-> [m |-> "none", a |-> <<>>]]
    /\ result = [p \in Callers |-> NoResult]
    /\ ncalls = 0
    /\ pre = [p \in Callers |-> [clients |-> clients, contacts |-> contacts,
                                 types |-> clientTypes]]
    /\ prev = [p \in Callers |-> NoPrev]
    /\ twin = [p \in Callers |-> NoTwin]

NoProbe == [fn |-> "none"]

\* Calls of authenticate and of hitClientSuccessAPI alone, against an
\* endpoint that may answer anything.
InitHit == InitProvider /\ InitInstance /\ budget = 2 * RETRY_LIMIT /\ probe = NoProbe

NextHit ==
    \E p \in Solo :
        \/ CallAuthenticate(p)
        \/ CallHitClientSuccessAPI(p)
        \/ AuthRespond(p)
        \/ ApiRespond(p)

SpecHit == InitHit /\ [][NextHit]_vars

\* The same, with a transport that answers every request it is sent.
SpecHitFair ==
    SpecHit /\ \A p \in Solo : WF_vars(AuthRespond(p)) /\ WF_vars(ApiRespond(p))

\* The reconciling operations on clients and contacts, against a provider
\* that keeps records and injects at most MaxFaults recoverable faults.
Init == InitProvider /\ InitInstance /\ budget = MaxFaults /\ probe = NoProbe

Next ==
    \E p \in Solo :
        \/ CallUpsertClient(p)
        \/ CallCreateClient(p)
        \/ CallUpdateClient(p)
        \/ CallDeleteClient(p)
        \/ CallUpsertContact(p)
        \/ CallDeleteContact(p)
        \/ AuthRespond(p)
        \/ ApiRespond(p)

Spec == Init /\ [][Next]_vars

\* Lookups of client types by two callers of the one instance, whose calls
\* may overlap.
NextTypes ==
    \E p \in Callers :
        \/ CallGetClientTypeId(p)
        \/ AuthRespond(p)
        \/ ApiRespond(p)

SpecTypes == Init /\ [][NextTypes]_vars

\* Two callers of the one instance whose upserts of a client by externalId
\* may overlap.
NextTwins ==
    \E p \in Callers :
        \/ CallUpsertByExternalId(p)
        \/ AuthRespond(p)
        \/ ApiRespond(p)

SpecTwins == Init /\ [][NextTwins]_vars

\* Two callers of the one instance whose hitClientSuccessAPI calls may
\* overlap.
NextRace ==
    \E p \in Callers :
        \/ CallHitClientSuccessAPI(p)
        \/ AuthRespond(p)
        \/ ApiRespond(p)

SpecRace == Init /\ [][NextRace]_vars

\* Every operation that takes an id, called with every kind of id.
NextIds ==
    \E p \in Solo :
        \/ CallGetClient(p)
        \/ CallCloseClient(p)
        \/ CallUpdateClientById(p)
        \/ CallDeleteClientById(p)
        \/ CallGetContact(p)
        \/ CallCreateContact(p)
        \/ CallUpdateContact(p)
        \/ CallUpsertContactById(p)
        \/ CallDeleteContactById(p)
        \/ CallDeleteProduct(p)
        \/ CallGetClientActiveSubscriptions(p)
        \/ CallCreateClientSubscription(p)
        \/ CallUpdateClientSubscription(p)
        \/ CallDeleteClientSubscription(p)
        \/ CallTrackActivity(p)
        \/ AuthRespond(p)
        \/ ApiRespond(p)
        \/ EventsRespond(p)

SpecIds == Init /\ [][NextIds]_vars

\* The validator applied to one value.
InitValidate ==
    /\ InitProvider /\ InitInstance /\ budget = 0
    /\ probe \in {[fn |-> "validateClientSuccessId", in |-> v, out |-> NoResult] :
                    v \in IdValues}

SpecValidate == InitValidate /\ [][Validate]_vars

\* The patcher applied to one record and one mapping, once and again.
InitPatch ==
    /\ InitProvider /\ InitInstance /\ budget = 0
    /\ probe \in {[fn |-> "patchCustomAttributes", object |-> o, customAttributes |-> m,
                   once |-> NoResult, twice |-> NoResult] :
                    o \in PatchObjects, m \in PatchMappings}

NextPatch == Patch \/ PatchAgain

SpecPatch == InitPatch /\ [][NextPatch]_vars

----------------------------------------------------------------------------
(* Claims *)

Done(p) == Idle(p) /\ result[p] # NoResult
Failed(p, status) == Done(p) /\ IsErr(result[p]) /\ result[p].status = status
DirectHit(p) == call[p].m = "hitClientSuccessAPI"
Requests(p) == hist[p].nget + hist[p].npost + hist[p].nput + hist[p].ndel

\* C1: a hitClientSuccessAPI call whose first N requests are answered 401
\* (N < 10) and whose next request succeeds returns the body of that
\* response; it has made N + 1 requests and one authenticate call after each
\* 401, before the next request.
C1_RetriesThenSucceeds ==
    \A p \in Callers :
        DirectHit(p) =>
            /\ wait[p].kind = "api" => hist[p].reauth = hist[p].n401
            /\ Done(p) /\ IsOk(result[p]) =>
                /\ hist[p].n401 < RETRY_LIMIT
                /\ hist[p].reauth = hist[p].n401
                /\ Requests(p) = hist[p].n401 + 1
                /\ result[p].val = hist[p].lastOk

C1_Witness ==
    \E p \in Callers :
        /\ DirectHit(p) /\ Done(p) /\ IsOk(result[p])
        /\ hist[p].n401 = RETRY_LIMIT - 1
        /\ hist[p].reauth = RETRY_LIMIT - 1

\* C2: a hitClientSuccessAPI call fails with status 429 exactly when ten
\* requests were answered 401; it never sends more than ten requests.
C2_AlwaysUnauthorized ==
    \A p \in Callers :
        DirectHit(p) =>
            /\ Requests(p) <= RETRY_LIMIT
            /\ Failed(p, 429) <=> hist[p].n401 = RETRY_LIMIT
            /\ Failed(p, 429) => Requests(p) = RETRY_LIMIT

C2_Witness ==
    \E p \in Callers : DirectHit(p) /\ Failed(p, 429) /\ Requests(p) = RETRY_LIMIT

\* C3: when the API answers a hitClientSuccessAPI call with a failure status
\* other than 401, the call has failed with that status and nothing is in
\* flight; after a 401 the call goes on unless the attempts are used up or
\* the authentication that follows failed.
C3_OnlyUnauthorizedRetried ==
    \A p \in Callers :
        DirectHit(p) =>
            /\ hist[p].lastStatus \in {503, 417, 404, 400, 500} =>
                    /\ Failed(p, hist[p].lastStatus)
                    /\ result[p].kind = "CustomError"
                    /\ wait[p] = NoReq
            /\ hist[p].lastStatus = 401 /\ Done(p) =>
                    \/ hist[p].n401 = RETRY_LIMIT
                    \/ hist[p].lastReq.kind = "auth" /\ IsErr(result[p])

C3_Witness ==
    \E p \in Callers :
        /\ DirectHit(p) /\ Failed(p, 417)
        /\ hist[p].lastStatus = 417 /\ hist[p].n401 = 2 /\ Requests(p) = 3

----------------------------------------------------------------------------
(* Claims on the reconciling operations *)

IsCall(p, m) == call[p].m = m
GivenAttributes(p) == Default(call[p].a.attributes, EmptyObj)
GivenCustom(p) == Default(call[p].a.customAttributes, EmptyObj)
GivenExternalId(p) == Get(GivenAttributes(p), "externalId")

\* The records the provider held when the call of p began.
PreClientsAt(p, id) ==
    {i \in DOMAIN pre[p].clients : ToString(pre[p].clients[i].f.id) = ToString(id)}
PreContactsAt(p, id) ==
    {i \in DOMAIN pre[p].contacts : ToString(pre[p].contacts[i].f.id) = ToString(id)}
PreClientsByExternalId(p, externalId) ==
    {i \in DOMAIN pre[p].clients : pre[p].clients[i].f.externalId = externalId}

\* The call of p supplies only what the record already holds.
SuppliesNothingNew(p, record) ==
    /\ ObjectAssign(record, GivenAttributes(p)) = record
    /\ patchCustomAttributes(record, GivenCustom(p)) = record

HasAttributes(record, attributes) ==
    \A k \in DOMAIN attributes.f : Get(record, k) = attributes.f[k]

\* C4 as the specification states it: an upsertClient with a clientId, or an
\* upsertContact with a contactId, whose attributes and custom attributes
\* equal what the addressed record already holds sends no PUT.
C4_NoWriteWhenIdentical ==
    \A p \in Callers :
        /\ IsCall(p, "upsertClient") /\ ~Falsy(call[p].a.clientId)
            => \A i \in PreClientsAt(p, call[p].a.clientId) :
                    SuppliesNothingNew(p, pre[p].clients[i]) => hist[p].nput = 0
        /\ IsCall(p, "upsertContact") /\ ~Falsy(call[p].a.contactId)
            => \A i \in PreContactsAt(p, call[p].a.contactId) :
                    SuppliesNothingNew(p, pre[p].contacts[i]) => hist[p].nput = 0

\* The call of p creates a client unless it finds one.
CreatePath(p) ==
    \/ IsCall(p, "createClient")
    \/ IsCall(p, "upsertClient") /\ Falsy(call[p].a.clientId)

PostsClient(p) ==
    wait[p].kind = "api" /\ wait[p].method = "POST" /\ wait[p].path.ep = "clients"

\* C5: createClient, and upsertClient without a clientId, given an
\* externalId that a client already has, send no POST: they update that
\* client and return its id with the given attributes applied; a POST is in
\* flight only while no client has the externalId, and an upsertClient that
\* follows an upsertClient of the same externalId returns the same id.
C5_ExistingExternalIdUpdated ==
    \A p \in Callers : CreatePath(p) /\ ~Falsy(GivenExternalId(p)) =>
        LET found == PreClientsByExternalId(p, GivenExternalId(p)) IN
        /\ PostsClient(p) => ClientsByExternalId(ToString(GivenExternalId(p))) = {}
        /\ found # {} => hist[p].npost = 0
        /\ found # {} /\ Done(p) /\ IsOk(result[p]) =>
            /\ Get(result[p].val, "id") = pre[p].clients[Min(found)].f.id
            /\ HasAttributes(result[p].val, GivenAttributes(p))
            /\ hist[p].nput >= 1
        /\ IsCall(p, "upsertClient") /\ Done(p) /\ IsOk(result[p])
                /\ prev[p].externalId = GivenExternalId(p)
            => Get(result[p].val, "id") = prev[p].id

\* The second of two upsertClient calls with the externalId of no client at
\* first has returned the id the first one returned, without a POST.
C5_Witness ==
    \E p \in Callers :
        /\ IsCall(p, "upsertClient") /\ Done(p) /\ IsOk(result[p])
        /\ GivenExternalId(p) = Str(<<"y">>)
        /\ prev[p] = [externalId |-> Str(<<"y">>), id |-> JSInt(4)]
        /\ Get(result[p].val, "id") = JSInt(4)
        /\ hist[p].npost = 0 /\ hist[p].nput >= 1

\* The call of p failed on a fault of the transport: the API is down, the
\* token is refused, or the auth endpoint does not give one.
FailedOnFault(p) ==
    \/ hist[p].lastReq.kind = "auth"
    \/ hist[p].lastReq.kind = "api" /\ hist[p].lastStatus \in {503, 401}

\* C6: an upsertClient without a clientId, whose externalId (if any) no
\* client has, creates one record: when it succeeds, one POST was accepted
\* (a POST answered 401 is sent again), the provider holds one client more,
\* and the returned record is that new client with the given attributes; it
\* fails only on a fault of the transport.
C6_NoMatchCreates ==
    \A p \in Callers :
        /\ IsCall(p, "upsertClient") /\ Falsy(call[p].a.clientId)
        /\ Falsy(GivenExternalId(p)) \/ PreClientsByExternalId(p, GivenExternalId(p)) = {}
        =>  /\ Done(p) /\ IsOk(result[p]) =>
                /\ hist[p].npost = 1 + hist[p].npost401
                /\ hist[p].npost401 = 0 => hist[p].npost = 1
                /\ Cardinality(DOMAIN clients) = Cardinality(DOMAIN pre[p].clients) + 1
                /\ \E i \in DOMAIN clients \ DOMAIN pre[p].clients :
                        /\ result[p].val = clients[i]
                        /\ Get(result[p].val, "id") = JSInt(i)
                /\ HasAttributes(result[p].val, GivenAttributes(p))
            /\ Done(p) /\ IsErr(result[p]) => FailedOnFault(p)

C6_Witness ==
    \E p \in Callers :
        /\ IsCall(p, "upsertClient") /\ call[p].a.clientId = UNDEF
        /\ GivenExternalId(p) = Str(<<"y">>)
        /\ PreClientsByExternalId(p, GivenExternalId(p)) = {}
        /\ Done(p) /\ IsOk(result[p])
        /\ hist[p].npost = 1
        /\ Get(result[p].val, "name") = Str(<<"B">>)

\* C7: an upsertClient whose clientId is the empty string, and an
\* upsertContact whose contactId is the empty string, go the way of the same
\* call without that id: at every step the same request is in flight, the
\* same requests have been sent, the same token is held, and the call ends
\* when that one ends, with the same result; it never fails on the validation
\* of the blank id.
C7_BlankIdAsOmitted ==
    \A p \in Callers : twin[p] # NoTwin =>
        /\ twin[p].wait = wait[p]
        /\ twin[p].hist = hist[p]
        /\ twin[p].tok = authToken
        /\ (twin[p].stack = <<>>) <=> Idle(p)
        /\ Done(p) => twin[p].in = result[p]
        /\ Done(p) /\ IsErr(result[p])
                /\ (IsCall(p, "upsertContact") => ~Falsy(call[p].a.clientId))
            => result[p].message # "Invalid ClientSuccess ID"

C7_Witness ==
    \E p \in Callers :
        /\ IsCall(p, "upsertContact") /\ call[p].a.contactId = Str(<<>>)
        /\ twin[p] # NoTwin
        /\ Done(p) /\ IsOk(result[p])
        /\ hist[p].npost = 1

DeletesContact(p) ==
    wait[p].kind = "api" /\ wait[p].method = "DELETE"
        /\ wait[p].path.ep = "clients/:id/contacts/:id"

\* C10: deleteContact sends the DELETE only after the provider has answered
\* its GET with the contact, and the clientId of that contact, as a string,
\* is the clientId given; for a contact that another client owns it sends no
\* DELETE and fails with 404.
C10_DeleteOnlyOwnContact ==
    \A p \in Callers : IsCall(p, "deleteContact") =>
        /\ DeletesContact(p) =>
            /\ hist[p].nget >= 1
            /\ Str(ToString(Get(hist[p].lastOk, "clientId"))) = call[p].a.clientId
            /\ ToString(Get(hist[p].lastOk, "id")) = ToString(call[p].a.contactId)
        /\ ~Falsy(call[p].a.clientId) =>
            \A i \in PreContactsAt(p, call[p].a.contactId) :
                ToString(pre[p].contacts[i].f.clientId) # ToString(call[p].a.clientId)
                    => /\ hist[p].ndel = 0
                       /\ Done(p) => Failed(p, 404)

\* The provider served contact 3 of client 1 to a deleteContact for client 2,
\* which then failed with 404 without a DELETE.
C10_Witness ==
    \E p \in Callers :
        /\ IsCall(p, "deleteContact")
        /\ call[p].a = [clientId |-> Str(<<"2">>), contactId |-> Str(<<"3">>)]
        /\ Get(hist[p].lastOk, "clientId") = JSInt(1)
        /\ Failed(p, 404) /\ hist[p].ndel = 0

----------------------------------------------------------------------------
(* Claims on identifiers *)

DigitChars == {"0", "1", "2", "3", "4", "5", "6", "7", "8", "9"}

\* A positive integer, as a number or as its digits.
WellFormedId(v) ==
    \/ v.t = "number" /\ ~v.neg /\ v.int > 0 /\ v.frac = 0
    \/ /\ v.t = "string" /\ v.s # <<>>
       /\ \A i \in DOMAIN v.s : v.s[i] \in DigitChars
       /\ \E i \in DOMAIN v.s : v.s[i] # "0"

\* C8 as the specification states it: the validator accepts a value when,
\* and only when, it is a positive integer given as a number or as a string
\* of digits, and what it rejects it rejects with status 400.
C8_AcceptsOnlyWellFormed ==
    probe.fn = "validateClientSuccessId" /\ probe.out # NoResult =>
        /\ IsOk(probe.out) <=> WellFormedId(probe.in)
        /\ IsErr(probe.out) => probe.out.status = 400

MissingId(v) == v \in {UNDEF, NULL, Str(<<>>)}
MalformedId(v) == ~MissingId(v) /\ ~WellFormedId(v)
NoDigitId(v) == v.t = "string" /\ v.s # <<>> /\ \A i \in DOMAIN v.s : v.s[i] \notin DigitChars

\* The ids the operation called by p cannot do without.
RequiredIds(p) ==
    CASE call[p].m \in {"getClient", "updateClient", "closeClient", "deleteClient",
                        "createContact", "upsertContact"} -> {call[p].a.clientId}
      [] call[p].m \in {"getContact", "updateContact", "deleteContact"} ->
            {call[p].a.clientId, call[p].a.contactId}
      [] call[p].m = "deleteProduct" -> {call[p].a.productId}
      [] call[p].m \in {"getClientActiveSubscriptions", "createClientSubscription",
                        "trackActivity"} -> {call[p].a.clientID}
      [] call[p].m = "updateClientSubscription" -> {Get(call[p].a.subscriptionObject, "id")}
      [] call[p].m = "deleteClientSubscription" -> {call[p].a.subscriptionID}
      [] OTHER -> {}

\* Whether the operation called by p passes its ids to the validator.
Validates(p) ==
    call[p].m \in {"getClient", "updateClient", "closeClient", "getContact",
                   "createContact", "updateContact", "upsertContact",
                   "getClientActiveSubscriptions", "createClientSubscription",
                   "trackActivity"}

NoTraffic(p) ==
    /\ wait[p] = NoReq
    /\ Requests(p) = 0 /\ hist[p].nauth = 0 /\ hist[p].nraw = 0

----------------------------------------------------------------------------
(* Claims on contacts, custom fields, the token and failures *)

\* The contacts that the client named by the call of p owned when it began.
PreOwnContacts(p) ==
    {i \in PreContactsAt(p, call[p].a.contactId) :
        ToString(pre[p].contacts[i].f.clientId) = ToString(call[p].a.clientId)}

\* C11 as the specification states it: a deleteContact for a contact that
\* the given client owns, the clientId being a number or its digits, sends
\* the DELETE and resolves unless the transport fails.
C11_OwnContactDeleted ==
    \A p \in Callers :
        /\ IsCall(p, "deleteContact")
        /\ WellFormedId(call[p].a.clientId)
        /\ PreOwnContacts(p) # {}
        /\ Done(p) /\ ~FailedOnFault(p)
        => IsOk(result[p]) /\ hist[p].ndel >= 1

Patched(mapping, label) ==
    mapping.t = "object" /\ label \in DOMAIN mapping.f

\* C12: the patcher leaves everything of the record but the values of its
\* custom fields as it was: the sequence keeps its length, its order and its
\* labels, an entry whose label is a key of the mapping gets the mapping's
\* value, any other entry keeps its value, and a key that is the label of no
\* entry adds nothing.
C12_PatchByLabel ==
    probe.fn = "patchCustomAttributes" /\ probe.once # NoResult =>
        LET before == Get(probe.object, "customFieldValues")
            after == Get(probe.once, "customFieldValues")
        IN  /\ DOMAIN probe.once.f = DOMAIN probe.object.f
            /\ \A k \in DOMAIN probe.object.f \ {"customFieldValues"} :
                    probe.once.f[k] = probe.object.f[k]
            /\ before.t # "array" => after = before
            /\ before.t = "array" =>
                /\ after.t = "array"
                /\ Len(after.e) = Len(before.e)
                /\ \A i \in DOMAIN before.e :
                    /\ after.e[i].f.label = before.e[i].f.label
                    /\ after.e[i].f.value =
                            IF Patched(probe.customAttributes, before.e[i].f.label)
                            THEN probe.customAttributes.f[before.e[i].f.label]
                            ELSE before.e[i].f.value

\* A mapping with the key of one entry and a key of none has changed the
\* first of two entries and left the second.
C12_Witness ==
    /\ probe.fn = "patchCustomAttributes" /\ probe.once # NoResult
    /\ probe.customAttributes.t = "object"
    /\ DOMAIN probe.customAttributes.f = {"a", "c"}
    /\ Get(probe.object, "customFieldValues") =
            Arr(<<Obj([label |-> "a", value |-> NULL]),
                  Obj([label |-> "b", value |-> Str(<<"n">>)])>>)
    /\ Get(probe.once, "customFieldValues") =
            Arr(<<Obj([label |-> "a", value |-> Str(<<"m">>)]),
                  Obj([label |-> "b", value |-> Str(<<"n">>)])>>)

\* C13: patching a record with a mapping, then patching the outcome with the
\* same mapping, gives the outcome of the first patch.
C13_PatchIdempotent ==
    probe.fn = "patchCustomAttributes" /\ probe.twice # NoResult => probe.twice = probe.once

\* The second patch of a record that the first patch changed has been done.
C13_Witness ==
    /\ probe.fn = "patchCustomAttributes" /\ probe.twice # NoResult
    /\ probe.once # probe.object
    /\ probe.twice = probe.once

\* Caller p has just received an answer with a token from the auth endpoint.
TokenGranted(p) ==
    /\ wait[p].kind = "auth" /\ stack'[p] # stack[p]
    /\ hist'[p].lastAuth \in 200..299
    /\ authToken' # NULL

\* Caller p has just received a 401 from the API.
TokenRefused(p) ==
    /\ wait[p].kind = "api" /\ stack'[p] # stack[p]
    /\ hist'[p].lastStatus = 401 /\ hist'[p].n401 = hist[p].n401 + 1
    /\ authToken' = NULL

\* C14: the token is null at construction, and every step that changes it is
\* either the arrival of a successful answer of the auth endpoint, which sets
\* it to a token, or the arrival of a 401 from the API inside
\* hitClientSuccessAPI, which sets it to null.
C14_TokenLifecycle ==
    /\ authToken = NULL
    /\ [][authToken' # authToken =>
            \E p \in Callers : TokenGranted(p) \/ TokenRefused(p)]_vars

\* A call has been granted a token, has had it refused, and holds a new one.
C14_Witness ==
    \E p \in Callers :
        /\ hist[p].nauth >= 2 /\ hist[p].n401 >= 1
        /\ hist[p].lastAuth \in 200..299
        /\ authToken # NULL

\* C15 as the specification states it: an authenticate whose request fails
\* ends with a CustomError: of status 401 when the auth endpoint answered
\* 401, and otherwise of status 400 and more than the fixed record, so that
\* the failure it comes from can be told.
C15_AuthFailures ==
    \A p \in Callers :
        IsCall(p, "authenticate") /\ Done(p) /\ hist[p].lastAuth \notin 200..299 =>
            /\ IsErr(result[p]) /\ result[p].kind = "CustomError"
            /\ hist[p].lastAuth = 401 => result[p].status = 401
            /\ hist[p].lastAuth # 401 =>
                /\ result[p].status = 400
                /\ result[p] # CustomError(400, "Invalid Request")

\* C16 as the specification states it: whatever failure a public operation
\* ends with is a CustomError record whose status is an integer HTTP status;
\* nothing else escapes to the caller.
C16_OnlyErrorRecords ==
    \A p \in Callers :
        Done(p) /\ IsErr(result[p]) =>
            result[p].kind = "CustomError" /\ result[p].status \in 100..599

\* The call of caller p has fetched the list of client types.
Fetched(p) ==
    IsCall(p, "getClientTypeId") /\ hist[p].nget >= 1 /\ hist[p].lastStatus \in 200..299

\* Caller p has just received the list it asked for with an empty cache.
CachePopulated(p) ==
    /\ IsCall(p, "getClientTypeId") /\ Falsy(pre[p].types)
    /\ wait[p].kind = "api" /\ stack'[p] # stack[p]
    /\ hist'[p].lastStatus \in 200..299

\* C17 as the specification states it: whether or not the calls overlap, the
\* list of client types is fetched successfully by at most one of them.
C17_FetchedOnce ==
    \A p, q \in Callers : Fetched(p) /\ Fetched(q) => p = q

\* C17, amended: a getClientTypeId call begun when the cache is populated
\* sends no request at all, and the cache changes only when a call begun with
\* the cache empty receives the list it fetched.
C17_CacheReadOnlyOncePopulated ==
    /\ [](\A p \in Callers :
            IsCall(p, "getClientTypeId") /\ ~Falsy(pre[p].types) =>
                Requests(p) = 0 /\ hist[p].nauth = 0)
    /\ [][clientTypes' # clientTypes => \E p \in Callers : CachePopulated(p)]_vars

\* A lookup begun with the cache populated has been answered from it.
C17_Witness ==
    \E p \in Callers :
        /\ IsCall(p, "getClientTypeId") /\ ~Falsy(pre[p].types)
        /\ Done(p) /\ IsOk(result[p])

\* C18: the last request of a successful upsertClient, on whichever path, is
\* a GET of the client it returns, sent after the call's writes, and the
\* result is the body of the answer to that GET.
C18_ReturnsRefetchedClient ==
    \A p \in Callers :
        IsCall(p, "upsertClient") /\ Done(p) /\ IsOk(result[p]) =>
            /\ hist[p].lastReq.kind = "api" /\ hist[p].lastReq.method = "GET"
            /\ hist[p].lastReq.path = ClientPath(Get(result[p].val, "id"))
            /\ hist[p].lastStatus \in 200..299
            /\ result[p].val = hist[p].lastOk
            /\ hist[p].npost + hist[p].nput >= 1

\* A successful upsert that has created its client.
C18_Witness ==
    \E p \in Callers :
        /\ IsCall(p, "upsertClient") /\ Done(p) /\ IsOk(result[p])
        /\ Falsy(call[p].a.clientId) /\ hist[p].npost >= 1

\* The last thing the call of caller p did was an authentication that failed.
AuthFailed(p) ==
    /\ hist[p].nauth >= 1
    /\ hist[p].lastAuth \notin 200..299 \cup {-1}

\* C19: a hitClientSuccessAPI call whose authentication fails ends there with
\* the error authenticate raised for that answer: the request to the auth
\* endpoint is the last one the call sends, and every API request it sent
\* before was one of an earlier iteration that was answered 401.
C19_AuthFailurePropagates ==
    \A p \in Callers :
        DirectHit(p) /\ AuthFailed(p) =>
            /\ Done(p)
            /\ hist[p].lastReq.kind = "auth"
            /\ Requests(p) = hist[p].n401
            /\ hist[p].lastAuth = 401 => result[p] = CustomError(401, "Authentication Error")
            /\ hist[p].lastAuth \notin {401, 0} => result[p] = CustomError(400, "Invalid Request")
            /\ hist[p].lastAuth = 0 => result[p] = TypeError

\* A call has failed on its first authentication, with no API request sent.
C19_Witness ==
    \E p \in Callers :
        /\ DirectHit(p) /\ AuthFailed(p) /\ Done(p)
        /\ Requests(p) = 0
        /\ result[p].status \in {400, 401}

\* The contacts with that email, of a client with that externalId, that the
\* provider held when the call of p began.
PreContactsByEmail(p, externalId, email) ==
    {j \in DOMAIN pre[p].contacts :
        /\ pre[p].contacts[j].f.email = email
        /\ \E k \in PreClientsByExternalId(p, externalId) :
                pre[p].contacts[j].f.clientId = pre[p].clients[k].f.id}

\* An upsertContact of p without a contactId, for a client that is there,
\* whose lookup by email is made and finds no contact.
ContactCreatePath(p) ==
    /\ IsCall(p, "upsertContact")
    /\ WellFormedId(call[p].a.clientId) /\ Falsy(call[p].a.contactId)
    /\ ~Falsy(Get(GivenAttributes(p), "email"))
    /\ \E i \in PreClientsAt(p, call[p].a.clientId) :
        /\ ~Falsy(pre[p].clients[i].f.externalId)
        /\ PreContactsByEmail(p, pre[p].clients[i].f.externalId,
                              Get(GivenAttributes(p), "email")) = {}

\* C20: an upsertContact with a valid clientId and no contactId, whose email
\* no contact of the client has, that succeeds has sent exactly one POST (a
\* POST answered 401 is sent again): the provider holds one contact more,
\* under that client, and the returned record is that contact with the given
\* attributes; the call fails only on a fault of the transport.
C20_NoContactCreates ==
    \A p \in Callers : ContactCreatePath(p) =>
        /\ Done(p) /\ IsOk(result[p]) =>
            /\ hist[p].npost = 1 + hist[p].npost401
            /\ Cardinality(DOMAIN contacts) = Cardinality(DOMAIN pre[p].contacts) + 1
            /\ \E j \in DOMAIN contacts \ DOMAIN pre[p].contacts :
                    /\ Get(result[p].val, "id") = JSInt(j)
                    /\ ToString(contacts[j].f.clientId) = ToString(call[p].a.clientId)
                    /\ HasAttributes(contacts[j], GivenAttributes(p))
            /\ HasAttributes(result[p].val, GivenAttributes(p))
        /\ Done(p) /\ IsErr(result[p]) => FailedOnFault(p)

\* The contact n@x of client 1 has been created by one POST.
C20_Witness ==
    \E p \in Callers :
        /\ ContactCreatePath(p)
        /\ Done(p) /\ IsOk(result[p])
        /\ hist[p].npost = 1
        /\ Get(result[p].val, "email") = Str(<<"n", "@", "x">>)
        /\ Get(result[p].val, "firstName") = Str(<<"B">>)

\* The contacts that the lookup by email of the upsertContact of p finds
\* among the records held when the call began.
PreFoundByEmail(p) ==
    UNION {PreContactsByEmail(p, pre[p].clients[i].f.externalId,
                              Get(GivenAttributes(p), "email")) :
                i \in PreClientsAt(p, call[p].a.clientId)}

\* C21 as the specification states it: an upsertContact without a contactId
\* that finds its contact by email, and is given a custom attribute whose
\* value differs from the one stored under that label, does not end
\* successfully without having sent a PUT.
C21_CustomDifferenceWritten ==
    \A p \in Callers :
        /\ IsCall(p, "upsertContact")
        /\ WellFormedId(call[p].a.clientId) /\ Falsy(call[p].a.contactId)
        /\ \E j \in PreFoundByEmail(p) :
                patchCustomAttributes(pre[p].contacts[j], GivenCustom(p)) # pre[p].contacts[j]
        /\ Done(p) /\ IsOk(result[p])
        => hist[p].nput >= 1

\* The last request of the call of p was an API request answered 503.
Answered503(p) ==
    hist[p].lastReq.kind = "api" /\ wait[p].kind = "none" /\ hist[p].lastStatus = 503

\* C22 as the specification states it: a public operation one of whose
\* requests the provider answers 503 sends nothing after that answer and
\* fails with status 503.
C22_UnavailableSurfaces ==
    \A p \in Callers : Answered503(p) => Failed(p, 503)

\* C23: nothing coordinates the callers of one instance: a 401 answered to
\* any call clears the token field, whichever call obtained the token that
\* the field holds at that moment.
C23_ClearIsUnconditional ==
    [][\A p \in Callers :
            wait[p].kind = "api" /\ hist'[p].n401 = hist[p].n401 + 1 => authToken' = NULL]_vars

\* The request of q carries the token that q's own authentication obtained,
\* q has been answered no 401, and the field is null again: the 401 answered
\* to p has cleared the token of q, and p authenticates anew.
C23_Witness ==
    \E p, q \in Callers :
        /\ p # q /\ DirectHit(p) /\ DirectHit(q)
        /\ wait[q].kind = "api" /\ ~Falsy(wait[q].auth)
        /\ hist[q].nauth = 1 /\ hist[q].granted /\ hist[q].n401 = 0
        /\ hist[p].n401 >= 1 /\ hist[p].lastStatus = 401 /\ wait[p].kind = "auth"
        /\ authToken = NULL

\* The PUT of an updateClient or updateContact of caller p is in flight.
Updating(p) ==
    /\ wait[p].kind = "api" /\ wait[p].method = "PUT"
    /\ Len(stack[p]) >= 2
    /\ stack[p][Len(stack[p]) - 1].m \in {"updateClient", "updateContact"}

\* The arguments of that update.
UpdateArgs(p) == stack[p][Len(stack[p]) - 1].a

\* The custom fields of fetched with the supplied values under their labels.
MergedCustomFields(fetched, body, custom) ==
    IF Get(fetched, "customFieldValues").t # "array"
    THEN Get(body, "customFieldValues") = Get(fetched, "customFieldValues")
    ELSE /\ Get(body, "customFieldValues").t = "array"
         /\ Len(body.f.customFieldValues.e) = Len(fetched.f.customFieldValues.e)
         /\ \A i \in DOMAIN fetched.f.customFieldValues.e :
                /\ body.f.customFieldValues.e[i].f.label = fetched.f.customFieldValues.e[i].f.label
                /\ body.f.customFieldValues.e[i].f.value =
                        IF fetched.f.customFieldValues.e[i].f.label \in DOMAIN custom.f
                        THEN custom.f[fetched.f.customFieldValues.e[i].f.label]
                        ELSE fetched.f.customFieldValues.e[i].f.value

\* The body is fetched with the attributes laid over it, the custom fields
\* merged, and the rest as it was.
ReadMergeWrite(fetched, body, attributes, custom) ==
    /\ fetched.t = "object" /\ body.t = "object"
    /\ DOMAIN body.f = DOMAIN fetched.f \cup DOMAIN attributes.f
    /\ HasAttributes(body, attributes)
    /\ \A k \in DOMAIN fetched.f \ (DOMAIN attributes.f \cup {"customFieldValues"}) :
            body.f[k] = fetched.f[k]
    /\ MergedCustomFields(fetched, body, custom)

\* C24: whenever the PUT of an updateClient or updateContact is in flight,
\* called directly or by an upsert or a create, a GET of the call has been
\* answered successfully before it, the PUT addresses the record the update
\* was given, and its body is the fetched record with the supplied attributes
\* over it, the custom fields patched by label and every other field kept; an
\* update whose GET failed has sent no PUT.
C24_ReadMergeWrite ==
    \A p \in Callers :
        /\ Updating(p) =>
            /\ hist[p].nget >= 1
            /\ wait[p].path = IF stack[p][Len(stack[p]) - 1].m = "updateClient"
                              THEN ClientPath(UpdateArgs(p).clientId)
                              ELSE ContactDetailsPath(UpdateArgs(p).clientId,
                                                      UpdateArgs(p).contactId)
            /\ ReadMergeWrite(hist[p].lastOk, wait[p].data,
                              Default(UpdateArgs(p).attributes, EmptyObj),
                              Default(UpdateArgs(p).customAttributes, EmptyObj))
        /\ call[p].m \in {"updateClient", "updateContact"} /\ hist[p].lastOk = UNDEF
            => hist[p].nput = 0

\* The PUT of an updateContact that patches a custom field is in flight.
C24_Witness ==
    \E p \in Callers :
        /\ Updating(p)
        /\ stack[p][Len(stack[p]) - 1].m = "updateContact"
        /\ Default(UpdateArgs(p).customAttributes, EmptyObj) # EmptyObj
        /\ wait[p].data # hist[p].lastOk

\* The status of the error hitClientSuccessAPI raises when the last answer
\* the call of p received is a failure.
RaisedStatus(p) ==
    IF hist[p].lastReq.kind = "auth"
    THEN (CASE hist[p].lastAuth = 401 -> 401
            [] hist[p].lastAuth = 0 -> TypeError.status
            [] OTHER -> 400)
    ELSE IF hist[p].lastStatus = 0 THEN TypeError.status
    ELSE hist[p].lastStatus

\* C25: a getContact whose GET the provider answers 417 fails with status
\* 404 and the message 'Contact not found'; a getContact that fails on any
\* other answer fails with the status hitClientSuccessAPI raised for it.
C25_MissingContactIs404 ==
    \A p \in Callers :
        IsCall(p, "getContact") /\ Done(p) /\ hist[p].lastReq # NoReq /\ IsErr(result[p]) =>
            IF hist[p].lastReq.kind = "api" /\ hist[p].lastStatus = 417
            THEN result[p] = CustomError(404, "Contact not found")
            ELSE result[p].status = RaisedStatus(p)

\* A getContact has been answered 417 and has failed with 404.
C25_Witness ==
    \E p \in Callers :
        /\ IsCall(p, "getContact") /\ Done(p)
        /\ hist[p].lastReq.kind = "api" /\ hist[p].lastStatus = 417
        /\ Failed(p, 404)

\* C26: when the transport answers every request, every hitClientSuccessAPI
\* call ends; throughout, it has sent at most RETRY_LIMIT API requests and
\* at most RETRY_LIMIT requests to the auth endpoint, the request in flight
\* is the last one it sent, and nothing is in flight once it has ended.
C26_Terminates ==
    /\ [](\A p \in Callers : DirectHit(p) =>
            /\ Requests(p) <= RETRY_LIMIT
            /\ hist[p].nauth <= RETRY_LIMIT
            /\ wait[p] # NoReq => wait[p] = hist[p].lastReq /\ ~Idle(p)
            /\ Idle(p) => wait[p] = NoReq)
    /\ \A p \in Callers : (DirectHit(p) /\ ~Idle(p)) ~> (DirectHit(p) /\ Done(p))

\* A call has ended after RETRY_LIMIT requests, each after an authentication
\* of its own.
C26_Witness ==
    \E p \in Callers :
        /\ DirectHit(p) /\ Done(p)
        /\ Requests(p) = RETRY_LIMIT /\ hist[p].nauth = RETRY_LIMIT

\* C27 as the specification states it: a createClient, or an upsertClient
\* without a clientId, that is given no custom attributes and creates its
\* client writes once: it sends the POST and no PUT.
C27_NoUpdateWithoutCustom ==
    \A p \in Callers :
        CreatePath(p) /\ call[p].a.customAttributes = UNDEF /\ hist[p].npost >= 1 =>
            /\ hist[p].nput = 0
            /\ Done(p) /\ IsOk(result[p]) => hist[p].npost = 1 + hist[p].npost401

\* The call of p is an upsertClient without a clientId that carries an
\* externalId.
UpsertsByExternalId(p) ==
    IsCall(p, "upsertClient") /\ Falsy(call[p].a.clientId) /\ ~Falsy(GivenExternalId(p))

\* C28 as the specification states it: two upsertClient calls without a
\* clientId that carry the same externalId, begun when no client has it, send
\* one create request between them at most, and return the same id.
C28_OneCreateBetweenTwo ==
    \A p, q \in Callers :
        /\ p # q /\ UpsertsByExternalId(p) /\ UpsertsByExternalId(q)
        /\ GivenExternalId(p) = GivenExternalId(q)
        /\ PreClientsByExternalId(p, GivenExternalId(p)) = {}
        /\ PreClientsByExternalId(q, GivenExternalId(q)) = {}
        =>  /\ hist[p].npost - hist[p].npost401 + hist[q].npost - hist[q].npost401 <= 1
            /\ Done(p) /\ IsOk(result[p]) /\ Done(q) /\ IsOk(result[q]) =>
                    Get(result[p].val, "id") = Get(result[q].val, "id")

\* C28, amended: an upsertClient by externalId begun when a client has that
\* externalId sends no create request and returns that client's id; one that
\* succeeds returns a client the provider holds under that externalId; and
\* two such calls for one externalId return the same id unless each of them
\* has sent a create request of its own.
C28_SameIdUnlessBothCreate ==
    \A p \in Callers : UpsertsByExternalId(p) =>
        /\ PreClientsByExternalId(p, GivenExternalId(p)) # {} =>
            /\ hist[p].npost = 0
            /\ Done(p) /\ IsOk(result[p]) =>
                    Get(result[p].val, "id") =
                        pre[p].clients[Min(PreClientsByExternalId(p, GivenExternalId(p)))].f.id
        /\ Done(p) /\ IsOk(result[p]) =>
            \E i \in ClientsByExternalId(ToString(GivenExternalId(p))) :
                clients[i].f.id = Get(result[p].val, "id")
        /\ \A q \in Callers :
            /\ UpsertsByExternalId(q) /\ GivenExternalId(q) = GivenExternalId(p)
            /\ Done(p) /\ IsOk(result[p]) /\ Done(q) /\ IsOk(result[q])
            /\ Get(result[p].val, "id") # Get(result[q].val, "id")
            => hist[p].npost >= 1 /\ hist[q].npost >= 1

\* Two overlapping upserts of one externalId have each created a client.
C28_Witness ==
    \E p, q \in Callers :
        /\ p # q /\ UpsertsByExternalId(p) /\ UpsertsByExternalId(q)
        /\ GivenExternalId(p) = GivenExternalId(q)
        /\ Done(p) /\ IsOk(result[p]) /\ Done(q) /\ IsOk(result[q])
        /\ Get(result[p].val, "id") # Get(result[q].val, "id")
        /\ Cardinality(ClientsByExternalId(ToString(GivenExternalId(p)))) = 2

\* C29 as the specification states it: every API request in flight carries
\* a token in its Authorization header.
C29_RequestsCarryToken ==
    \A p \in Callers : wait[p].kind = "api" => ~Falsy(wait[p].auth)

\* The lookup by email of the upsertContact of p cannot be made: no email is
\* given, or the client has no externalId.
NoLookupKey(p) ==
    \/ Falsy(Get(GivenAttributes(p), "email"))
    \/ \E i \in PreClientsAt(p, call[p].a.clientId) : Falsy(pre[p].clients[i].f.externalId)

====
